---------------------------- MODULE Spec2Model ----------------------------
(***************************************************************************)
(* Motion / form coherence test: the adaptive coherence controller         *)
(* (updateCoherency), the trial state machine (update, feedback, paused,   *)
(* reset) and the per-frame dot simulation (updateDots, Dot.update,        *)
(* Dot.collideWithWall, Dot.collideWithDot) of FormWorld and               *)
(* MotionTutorialTrialWorld.                                               *)
(*                                                                         *)
(* Numbers of the program are JavaScript doubles.  The coherence           *)
(* controller is modelled with exact rationals <<n, d>> in lowest terms    *)
(* with d > 0; a value with d = 0 is non-finite: <<0, 0>> is NaN,          *)
(* <<1, 0>> and <<-1, 0>> are +Infinity and -Infinity.  The dot simulation *)
(* holds its numbers to three decimals.                                    *)
(***************************************************************************)
EXTENDS Integers, Sequences, FiniteSets, TLC

VARIABLES
    coh,                \* per world class: coherencePercent and the last updateCoherency call
    world,              \* the class of the world under test
    currentState,       \* WorldState of the world
    runTime,            \* time the current trial has been running
    feedbackTimer,      \* time spent in the feedback state
    stepCounter,        \* the screen's stepCounter
    reversalCounter,    \* the screen's reversalCounter (FormWorld)
    coherentPatchSide,  \* "LEFT" or "RIGHT"
    dotsLeft,           \* sequence of Dot records of the left patch
    dotsRight,          \* sequence of Dot records of the right patch
    quadTree,           \* the objects held by the quadtree
    containersVisible,  \* visible flag of the two stimulus containers
    patchInteractive,   \* interactive flag of the two patches
    failure,            \* the error thrown by the constructor, "none" otherwise
    lastCall,           \* the last call made on the world
    collision,          \* the last collideWithDot call: caller, argument, dots before it
    frame,              \* where updateDots is: statement, side, dot index, point drawn
    grid,               \* a createGridPoints call: its arguments and what it gave
    button              \* a TextButton: isMouseDown, text.y, the fill of its shape

cohVars == <<coh>>

worldVars ==
    <<world, currentState, runTime, feedbackTimer, stepCounter, reversalCounter,
      coherentPatchSide, dotsLeft, dotsRight, quadTree, containersVisible,
      patchInteractive, failure, lastCall, collision, frame, grid, button>>

vars ==
    <<coh, world, currentState, runTime, feedbackTimer, stepCounter, reversalCounter,
      coherentPatchSide, dotsLeft, dotsRight, quadTree, containersVisible,
      patchInteractive, failure, lastCall, collision, frame, grid, button>>

-----------------------------------------------------------------------------
(* Rational arithmetic with IEEE-754 non-finite values.                    *)

Abs(i) == IF i < 0 THEN -i ELSE i

Sign(i) == IF i < 0 THEN -1 ELSE IF i > 0 THEN 1 ELSE 0

RECURSIVE GCD(_, _)
GCD(a, b) == IF b = 0 THEN a ELSE GCD(b, a % b)

Rat(n, d) ==
    IF d = 0 THEN <<Sign(n), 0>>
    ELSE LET g == GCD(Abs(n), Abs(d))
             s == IF d < 0 THEN -1 ELSE 1
         IN  <<(s * n) \div g, (s * d) \div g>>

I(n) == <<n, 1>>

NaN == <<0, 0>>

IsNaN(a) == a = NaN

IsFinite(a) == a[2] # 0

RNeg(a) == <<-a[1], a[2]>>

RAdd(a, b) ==
    IF a[2] = 0 /\ b[2] = 0
    THEN (IF a = b THEN a ELSE NaN)
    ELSE IF a[2] = 0 THEN a
    ELSE IF b[2] = 0 THEN b
    ELSE LET g == GCD(a[2], b[2])
             l == (a[2] \div g) * b[2]
         IN  Rat(a[1] * (l \div a[2]) + b[1] * (l \div b[2]), l)

RSub(a, b) == RAdd(a, RNeg(b))

RMul(a, b) ==
    IF a[2] = 0 \/ b[2] = 0
    THEN <<Sign(a[1]) * Sign(b[1]), 0>>
    ELSE LET g1 == GCD(Abs(a[1]), b[2])
             g2 == GCD(Abs(b[1]), a[2])
         IN  Rat((a[1] \div g1) * (b[1] \div g2), (a[2] \div g2) * (b[2] \div g1))

RDiv(a, b) == RMul(a, Rat(b[2], b[1]))

\* Comparisons: every comparison with NaN is false, as in IEEE-754.
RLt(a, b) ==
    /\ ~IsNaN(a)
    /\ ~IsNaN(b)
    /\ IF a[2] = 0 /\ b[2] = 0 THEN a[1] < b[1] ELSE a[1] * b[2] < b[1] * a[2]

RLe(a, b) == ~IsNaN(a) /\ ~IsNaN(b) /\ ~RLt(b, a)

RGt(a, b) == RLt(b, a)

RGe(a, b) == RLe(b, a)

\* Math.floor of a finite number, as an integer.
RFloor(a) == a[1] \div a[2]

RECURSIVE ISqrtIter(_, _)
ISqrtIter(n, x) ==
    CHOOSE r \in {IF y >= x THEN x ELSE ISqrtIter(n, y) :
                     y \in {(x + n \div x) \div 2}} : TRUE

\* The integer square root: the largest k with k * k <= n.
ISqrt(n) == IF n < 2 THEN n ELSE ISqrtIter(n, n)

IsSquare(n) == ISqrt(n) * ISqrt(n) = n

-----------------------------------------------------------------------------
(* Numbers of the simulation. A finite number is <<m, 1>> and stands for   *)
(* m / Scale; products, quotients and square roots are cut to that         *)
(* resolution. The non-finite numbers are those of the rationals above.    *)

Scale == 10 ^ 3

\* The quotient cut towards zero.
TDiv(n, d) == Sign(n) * Sign(d) * (Abs(n) \div Abs(d))

\* An integer as a number.
F(i) == <<i * Scale, 1>>

\* A rational as a number.
Fix(r) == IF r[2] = 0 THEN r ELSE <<TDiv(r[1] * Scale, r[2]), 1>>

FMul(a, b) ==
    IF a[2] = 1 /\ b[2] = 1 THEN <<TDiv(a[1] * b[1], Scale), 1>> ELSE RMul(a, b)

FDiv(a, b) ==
    IF a[2] = 1 /\ b[2] = 1
    THEN IF b[1] = 0 THEN <<Sign(a[1]), 0>> ELSE <<TDiv(a[1] * Scale, b[1]), 1>>
    ELSE RDiv(a, b)

\* Math.sqrt: NaN for NaN and negative arguments.
FSqrt(a) ==
    IF a[2] = 0 THEN (IF a[1] > 0 THEN a ELSE NaN)
    ELSE IF a[1] < 0 THEN NaN
    ELSE <<ISqrt(a[1] * Scale), 1>>

\* No collideWithDot call has been made.
NoCollision == [this |-> 0, dot |-> 0, before |-> <<>>]

\* updateDots is not running.
NoFrame ==
    [pc |-> "idle", side |-> "LEFT", i |-> 0, delta |-> 0, placed |-> 0,
     candidate |-> <<>>]

\* No createGridPoints call is looked at.
NoGrid ==
    [called |-> FALSE, numberOfDots |-> 0, dotsToKill |-> <<0, 1>>, xMax |-> 0, yMax |-> 0,
     error |-> FALSE, points |-> <<>>, lifetimes |-> <<>>]

-----------------------------------------------------------------------------
(* World classes.                                                          *)

FORM == "FormWorld"

MOTION == "MotionTutorialTrialWorld"

Worlds == {FORM, MOTION}

-----------------------------------------------------------------------------
(* The adaptive coherence controller.                                      *)

\* Bound: number of updateCoherency calls explored over both worlds.
MaxCalls == 3

\* Decibel factors handed to updateCoherency.
Factors == {Rat(-1, 1), Rat(1, 2), I(1), Rat(3, 2), I(2), I(4)}

\* Coherence percentages a world is constructed with (Settings.DOT_COHERENCE_PERCENTAGE).
StartCoherence == {I(0), I(25), I(50), I(100)}

\* A variant of FormWorld.updateCoherency that clamps an incorrect answer at 10.
FormWorld_updateCoherency_LowClamp(c, factor, isCorrectAnswer) ==
    LET temp == RMul(c, factor)
    IN  IF isCorrectAnswer
        THEN IF RGt(factor, I(1)) THEN RSub(c, RSub(temp, c)) ELSE temp
        ELSE IF RGt(temp, I(10)) THEN I(10) ELSE temp

\* FormWorld.updateCoherency: the new coherencePercent.
FormWorld_updateCoherency(c, factor, isCorrectAnswer) ==
    LET temp == RMul(c, factor)
    IN  IF isCorrectAnswer
        THEN IF RGt(factor, I(1))
             THEN RSub(c, RSub(temp, c))     \* temp -= c; c -= temp
             ELSE temp
        ELSE IF RGt(temp, I(100)) THEN I(100) ELSE temp

\* A variant of MotionTutorialTrialWorld.updateCoherency whose correct branch
\* multiplies for every factor.
MotionTutorialTrialWorld_updateCoherency_Multiply(c, factor, isCorrectAnswer) ==
    LET temp == RMul(c, factor)
        raw  == IF RGt(factor, I(1)) THEN temp ELSE RSub(c, RSub(temp, c))
    IN  IF isCorrectAnswer
        THEN temp
        ELSE IF RGt(raw, I(100)) THEN I(100) ELSE raw

\* A variant of MotionTutorialTrialWorld.updateCoherency whose incorrect branch
\* multiplies for every factor, as FormWorld's does.
MotionTutorialTrialWorld_updateCoherency_AsForm(c, factor, isCorrectAnswer) ==
    FormWorld_updateCoherency(c, factor, isCorrectAnswer)

\* MotionTutorialTrialWorld.updateCoherency: the new coherencePercent.
MotionTutorialTrialWorld_updateCoherency(c, factor, isCorrectAnswer) ==
    LET temp == RMul(c, factor)
    IN  IF isCorrectAnswer
        THEN IF RGt(factor, I(1))
             THEN RSub(c, RSub(temp, c))
             ELSE temp
        ELSE LET raw == IF RGt(factor, I(1))
                        THEN temp
                        ELSE RSub(c, RSub(temp, c))
             IN  IF RGt(raw, I(100)) THEN I(100) ELSE raw

\* The state before any updateCoherency call.
CohInit ==
    \E c \in StartCoherence :
        coh = [w \in Worlds |->
                 [coherencePercent |-> c, prev |-> c, factor |-> I(1),
                  isCorrectAnswer |-> TRUE, calls |-> 0]]

TotalCalls == coh[FORM].calls + coh[MOTION].calls

\* formWorld.updateCoherency(factor, isCorrectAnswer)
FormUpdateCoherency(factor, isCorrectAnswer) ==
    /\ TotalCalls < MaxCalls
    /\ coh' = [coh EXCEPT ![FORM] =
                 [coherencePercent |->
                      FormWorld_updateCoherency(@.coherencePercent, factor, isCorrectAnswer),
                  prev |-> @.coherencePercent,
                  factor |-> factor,
                  isCorrectAnswer |-> isCorrectAnswer,
                  calls |-> @.calls + 1]]

\* motionTutorialTrialWorld.updateCoherency(factor, isCorrectAnswer)
MotionUpdateCoherency(factor, isCorrectAnswer) ==
    /\ TotalCalls < MaxCalls
    /\ coh' = [coh EXCEPT ![MOTION] =
                 [coherencePercent |->
                      MotionTutorialTrialWorld_updateCoherency(@.coherencePercent, factor,
                                                               isCorrectAnswer),
                  prev |-> @.coherencePercent,
                  factor |-> factor,
                  isCorrectAnswer |-> isCorrectAnswer,
                  calls |-> @.calls + 1]]

InitCoh ==
    /\ button = <<>>
    /\ CohInit
    /\ world = MOTION
    /\ currentState = "PAUSED"
    /\ runTime = 0
    /\ feedbackTimer = 0
    /\ stepCounter = 0
    /\ reversalCounter = 0
    /\ coherentPatchSide = "LEFT"
    /\ dotsLeft = <<>>
    /\ dotsRight = <<>>
    /\ quadTree = [side |-> "NONE", objects |-> <<>>]
    /\ containersVisible = TRUE
    /\ patchInteractive = TRUE
    /\ failure = "none"
    /\ lastCall = "constructor"
    /\ collision = NoCollision
    /\ frame = NoFrame
    /\ grid = NoGrid

NextCoh ==
    \/ \E f \in Factors, ok \in BOOLEAN :
           FormUpdateCoherency(f, ok) /\ UNCHANGED worldVars
    \/ \E f \in Factors, ok \in BOOLEAN :
           MotionUpdateCoherency(f, ok) /\ UNCHANGED worldVars

SpecCoh == InitCoh /\ [][NextCoh]_vars

-----------------------------------------------------------------------------
(* Properties of the coherence controller, checked under SpecCoh.          *)

Called(w) == coh[w].calls > 0

RMin(a, b) == IF RLt(b, a) THEN b ELSE a

\* Both worlds were last called with the same arguments from the same coherencePercent.
SameInputs ==
    /\ Called(FORM)
    /\ Called(MOTION)
    /\ coh[FORM].prev = coh[MOTION].prev
    /\ coh[FORM].factor = coh[MOTION].factor
    /\ coh[FORM].isCorrectAnswer = coh[MOTION].isCorrectAnswer

\* C1: starting from a coherencePercent in [0,100], coherencePercent never exceeds
\* 100 after any updateCoherency call, in either world, whatever the factors and
\* the correctness sequence.
C1_NeverAbove100 ==
    \A w \in Worlds : RLe(coh[w].coherencePercent, I(100))

\* C7: a correct answer sets coherencePercent to c - (c*factor - c) when factor > 1
\* and to c*factor when factor <= 1, c being the value before the call, in both
\* worlds.
C7_CorrectAnswer ==
    \A w \in Worlds :
        (Called(w) /\ coh[w].isCorrectAnswer) =>
            LET c == coh[w].prev
                f == coh[w].factor
            IN  coh[w].coherencePercent =
                    IF RGt(f, I(1)) THEN RSub(c, RSub(RMul(c, f), c)) ELSE RMul(c, f)

\* C7 witness: FormWorld went from 50 to 25 by updateCoherency(0.5, true) and the
\* motion world took a correct answer with a factor above 1.
C7_Witness ==
    /\ Called(FORM)
    /\ coh[FORM].isCorrectAnswer
    /\ coh[FORM].prev = I(50)
    /\ coh[FORM].factor = Rat(1, 2)
    /\ coh[FORM].coherencePercent = I(25)
    /\ Called(MOTION)
    /\ coh[MOTION].isCorrectAnswer
    /\ RGt(coh[MOTION].factor, I(1))
    /\ RLt(coh[MOTION].coherencePercent, coh[MOTION].prev)

\* C8 as stated: an incorrect answer sets coherencePercent to min(c*factor, 100)
\* for every factor, in every world.
C8_IncorrectIsClampedProduct ==
    \A w \in Worlds :
        (Called(w) /\ ~coh[w].isCorrectAnswer) =>
            coh[w].coherencePercent = RMin(RMul(coh[w].prev, coh[w].factor), I(100))

\* C8 amended: an incorrect answer sets coherencePercent to min(c*factor, 100) in
\* FormWorld for every factor and in the motion world for factor > 1; for
\* factor <= 1 the motion world sets it to min(c - (c*factor - c), 100).
C8_IncorrectAnswer ==
    /\ (Called(FORM) /\ ~coh[FORM].isCorrectAnswer) =>
           coh[FORM].coherencePercent =
               RMin(RMul(coh[FORM].prev, coh[FORM].factor), I(100))
    /\ (Called(MOTION) /\ ~coh[MOTION].isCorrectAnswer) =>
           LET c == coh[MOTION].prev
               f == coh[MOTION].factor
           IN  coh[MOTION].coherencePercent =
                   IF RGt(f, I(1))
                   THEN RMin(RMul(c, f), I(100))
                   ELSE RMin(RSub(c, RSub(RMul(c, f), c)), I(100))

\* C8 witness: the motion world took an incorrect answer with a factor below 1 and
\* its coherencePercent went up, and FormWorld was clamped to 100.
C8_Witness ==
    /\ Called(MOTION)
    /\ ~coh[MOTION].isCorrectAnswer
    /\ coh[MOTION].factor = Rat(1, 2)
    /\ RGt(coh[MOTION].coherencePercent, coh[MOTION].prev)
    /\ Called(FORM)
    /\ ~coh[FORM].isCorrectAnswer
    /\ RGt(RMul(coh[FORM].prev, coh[FORM].factor), I(100))
    /\ coh[FORM].coherencePercent = I(100)

\* C9: for c in [0,100] and factor > 0, a correct answer never raises
\* coherencePercent and an incorrect answer never lowers it, in both worlds.
C9_NeverTheWrongWay ==
    \A w \in Worlds :
        (/\ Called(w)
         /\ RLe(I(0), coh[w].prev)
         /\ RLe(coh[w].prev, I(100))
         /\ RGt(coh[w].factor, I(0))) =>
            IF coh[w].isCorrectAnswer
            THEN RLe(coh[w].coherencePercent, coh[w].prev)
            ELSE RGe(coh[w].coherencePercent, coh[w].prev)

C11_NeverBelowZero ==
    \A w \in Worlds :
        (/\ Called(w)
         /\ RLe(I(0), coh[w].prev)
         /\ RLe(coh[w].prev, I(100))
         /\ RGe(coh[w].factor, I(0))) =>
            RGe(coh[w].coherencePercent, I(0))

-----------------------------------------------------------------------------
(* Configuration read by the worlds.                                       *)

\* utils/Settings: the values the motion world reads in its constructor.
Settings ==
    [DOT_COHERENCE_PERCENTAGE |-> 50,
     DOT_KILL_PERCENTAGE      |-> 50,
     DOT_TOTAL_AMOUNT         |-> 2,
     DOT_RADIUS               |-> 5,
     DOT_SPACING              |-> 2,
     DOT_MAX_ANIMATION_TIME   |-> 64,
     DOT_MAX_ALIVE_TIME       |-> 32]

\* utils/Constants.
Constants ==
    [PATCH_OUTLINE_THICKNESS                  |-> 1,
     MAX_FEEDBACK_TIME                        |-> 32,
     DOT_SPAWN_SEPARATION_DISTANCE_MULTIPLIER |-> 1]

\* utils/Psychophysics: the patch gap, width and height in pixels.
Psychophysics == [patchGap |-> 4, patchWidth |-> 39, patchHeight |-> 25]

\* createPatches: the two patches (x, y, width, height), left of and right of the gap.
patchGap == Psychophysics.patchGap

patchLeft ==
    [x |-> 0, y |-> 0, width |-> Psychophysics.patchWidth,
     height |-> Psychophysics.patchHeight]

patchRight ==
    [x |-> patchLeft.x + patchLeft.width + patchGap, y |-> patchLeft.y,
     width |-> patchLeft.width, height |-> patchLeft.height]

\* Fields set by the AbstractMotionWorld constructor.
numberOfDots == Settings.DOT_TOTAL_AMOUNT

dotRadius == Settings.DOT_RADIUS

dotSpacing == Settings.DOT_SPACING

maxRunTime == Settings.DOT_MAX_ANIMATION_TIME

dotMaxAliveTime == Settings.DOT_MAX_ALIVE_TIME

dotsToKill == Rat(Settings.DOT_KILL_PERCENTAGE * Settings.DOT_TOTAL_AMOUNT, 100)

dotSpawnSeparationDistance == 2 * Settings.DOT_RADIUS + Settings.DOT_SPACING

maxFeedbackTime == Constants.MAX_FEEDBACK_TIME

\* calculateMaxMin: the inner bounds of the two patches.
leftMinX == patchLeft.x + Constants.PATCH_OUTLINE_THICKNESS

leftMaxX == (patchLeft.x + patchLeft.width) - 3 * Constants.PATCH_OUTLINE_THICKNESS

patchMinY == patchLeft.y + Constants.PATCH_OUTLINE_THICKNESS

patchMaxY == (patchLeft.y + patchLeft.height) - Constants.PATCH_OUTLINE_THICKNESS

rightMinX == patchRight.x + Constants.PATCH_OUTLINE_THICKNESS

rightMaxX == (patchRight.x + patchRight.width) - 3 * Constants.PATCH_OUTLINE_THICKNESS

Sides == {"LEFT", "RIGHT"}

\* The inner bounds of one side's patch.
Bounds(side) ==
    IF side = "LEFT"
    THEN [minX |-> leftMinX, maxX |-> leftMaxX, minY |-> patchMinY, maxY |-> patchMaxY]
    ELSE [minX |-> rightMinX, maxX |-> rightMaxX, minY |-> patchMinY, maxY |-> patchMaxY]

\* Frame times handed to update.
Deltas == {16}

-----------------------------------------------------------------------------
(* Dot.                                                                    *)

horMaxTime == 30

ranMaxTime == 30

speed == Fix(Rat(1, 5))

\* Angles drawn for rando() * 360, each as <<cos, sin>>: 0 degrees and the angle
\* of the 3-4-5 triangle in the third quadrant.
Angles == {<<F(1), F(0)>>, <<Fix(Rat(-3, 5)), Fix(Rat(-4, 5))>>}

\* The angles among them drawn by the constructor and when a trial is created.
StartAngles == {<<Fix(Rat(-3, 5)), Fix(Rat(-4, 5))>>}

Angle180 == <<F(-1), F(0)>>

\* Values drawn for rando() * ranMaxTime.
DirectionTimerStarts == {0}

\* rotateVector(vec, angle): the 2D rotation of vec.
rotateVector(vec, ang) ==
    <<RSub(FMul(ang[1], vec[1]), FMul(ang[2], vec[2])),
      RAdd(FMul(ang[2], vec[1]), FMul(ang[1], vec[2]))>>

\* new Dot(x, y, radius, direction, aliveTime, texture); ang and timer are the two
\* values the constructor draws for a RANDOM dot.
Dot(x, y, radius, direction, aliveTime, ang, timer) ==
    LET v0 == IF direction = "LEFT" THEN <<RNeg(speed), F(0)>> ELSE <<speed, F(0)>>
    IN  [x              |-> x,
         y              |-> y,
         radius         |-> radius,
         direction      |-> direction,
         aliveTimer     |-> aliveTime,
         maxAliveTimer  |-> aliveTime,
         velocity       |-> IF direction = "RANDOM" THEN rotateVector(v0, ang) ELSE v0,
         directionTimer |-> IF direction = "RANDOM" THEN timer ELSE 0,
         isRandom       |-> direction = "RANDOM"]

\* Dot.updatePosition(delta)
updatePosition(dot, delta) ==
    [dot EXCEPT !.x = RAdd(@, FMul(F(delta), dot.velocity[1])),
                !.y = RAdd(@, FMul(F(delta), dot.velocity[2]))]

\* A variant of Dot.update that moves the dot before it changes the heading.
update_MovesFirst(dot, delta, ang) ==
    LET t  == dot.directionTimer + delta
        d1 == updatePosition([dot EXCEPT !.directionTimer = t, !.aliveTimer = @ - delta],
                             delta)
        d2 == IF ~d1.isRandom /\ t >= horMaxTime
              THEN [d1 EXCEPT !.velocity = rotateVector(@, Angle180), !.directionTimer = 0]
              ELSE d1
    IN  IF d2.isRandom /\ d2.directionTimer >= ranMaxTime
        THEN [d2 EXCEPT !.velocity = rotateVector(@, ang), !.directionTimer = 0]
        ELSE d2

\* Dot.update(delta); ang is the angle drawn when a RANDOM dot changes heading.
update(dot, delta, ang) ==
    LET t  == dot.directionTimer + delta
        d1 == [dot EXCEPT !.directionTimer = t, !.aliveTimer = @ - delta]
        d2 == IF ~d1.isRandom /\ t >= horMaxTime
              THEN [d1 EXCEPT !.velocity = rotateVector(@, Angle180), !.directionTimer = 0]
              ELSE d1
        d3 == IF d2.isRandom /\ d2.directionTimer >= ranMaxTime
              THEN [d2 EXCEPT !.velocity = rotateVector(@, ang), !.directionTimer = 0]
              ELSE d2
    IN  updatePosition(d3, delta)

\* Whether Dot.update(delta) draws a random angle for this dot.
TurnsRandomly(dot, delta) == dot.isRandom /\ dot.directionTimer + delta >= ranMaxTime

\* Dot.collideWithWall(wallX, wallY)
collideWithWall(dot, wallX, wallY) ==
    LET n0         == RSub(dot.x, wallX)
        n1         == RSub(dot.y, wallY)
        dist       == FSqrt(RAdd(FMul(n0, n0), FMul(n1, n1)))
        distScalar == FDiv(RSub(FMul(F(2), dot.radius), dist), dist)
        mtd0       == FMul(n0, distScalar)
        mtd1       == FMul(n1, distScalar)
    IN  [dot EXCEPT
            !.x = RAdd(@, FDiv(FMul(mtd0, F(1)), F(2))),
            !.y = RAdd(@, FDiv(FMul(mtd1, F(1)), F(2))),
            !.velocity = IF mtd0 # F(0)
                         THEN <<RNeg(@[1]), @[2]>>
                         ELSE <<@[1], RNeg(@[2])>>]

\* A variant of collideWithDot that pushes a Random dot away from a Fixed one by half
\* the overlap.
collideWithDot_HalfPush(dots, i, j) ==
    LET this == dots[i]
        dot  == dots[j]
        n0   == RSub(this.x, dot.x)
        n1   == RSub(this.y, dot.y)
        dist == FSqrt(RAdd(FMul(n0, n0), FMul(n1, n1)))
    IN  IF i = j THEN dots
        ELSE IF RGt(dist, FMul(F(2), this.radius)) THEN dots
        ELSE
        LET distScalar == FDiv(RSub(FMul(F(2), this.radius), dist), dist)
            mtd0 == FMul(n0, distScalar)
            mtd1 == FMul(n1, distScalar)
            un0  == FDiv(FMul(n0, F(1)), dist)
            un1  == FDiv(FMul(n1, F(1)), dist)
            ut0  == RNeg(un1)
            ut1  == un0
            v1n  == RAdd(FMul(un0, this.velocity[1]), FMul(un1, this.velocity[2]))
            v1t  == RAdd(FMul(ut0, this.velocity[1]), FMul(ut1, this.velocity[2]))
            v2n  == RAdd(FMul(un0, dot.velocity[1]), FMul(un1, dot.velocity[2]))
            v2t  == RAdd(FMul(ut0, dot.velocity[1]), FMul(ut1, dot.velocity[2]))
            v1nPrime == v2n
            v2nPrime == v1n
            thisVelocity == <<RAdd(FMul(un0, v1nPrime), FMul(ut0, v1t)),
                              RAdd(FMul(un1, v1nPrime), FMul(ut1, v1t))>>
            dotVelocity  == <<RAdd(FMul(un0, v2nPrime), FMul(ut0, v2t)),
                              RAdd(FMul(un1, v2nPrime), FMul(ut1, v2t))>>
            half0 == FDiv(FMul(mtd0, F(1)), F(2))
            half1 == FDiv(FMul(mtd1, F(1)), F(2))
        IN  IF this.isRandom /\ ~dot.isRandom
            THEN [dots EXCEPT ![i] = [this EXCEPT !.x = RAdd(@, half0),
                                                  !.y = RAdd(@, half1),
                                                  !.velocity = thisVelocity]]
            ELSE IF ~this.isRandom /\ dot.isRandom
            THEN [dots EXCEPT ![j] = [dot EXCEPT !.x = RSub(@, mtd0),
                                                 !.y = RSub(@, mtd1),
                                                 !.velocity = dotVelocity]]
            ELSE [dots EXCEPT ![i] = [this EXCEPT !.x = RAdd(@, half0),
                                                  !.y = RAdd(@, half1),
                                                  !.velocity = thisVelocity],
                              ![j] = [dot EXCEPT !.x = RSub(@, half0),
                                                 !.y = RSub(@, half1),
                                                 !.velocity = dotVelocity]]

\* A variant of collideWithDot that pushes both dots apart whatever their modes.
collideWithDot_PushPull(dots, i, j) ==
    LET this == dots[i]
        dot  == dots[j]
        n0   == RSub(this.x, dot.x)
        n1   == RSub(this.y, dot.y)
        dist == FSqrt(RAdd(FMul(n0, n0), FMul(n1, n1)))
    IN  IF i = j THEN dots
        ELSE IF RGt(dist, FMul(F(2), this.radius)) THEN dots
        ELSE
        LET distScalar == FDiv(RSub(FMul(F(2), this.radius), dist), dist)
            mtd0 == FMul(n0, distScalar)
            mtd1 == FMul(n1, distScalar)
            un0  == FDiv(FMul(n0, F(1)), dist)
            un1  == FDiv(FMul(n1, F(1)), dist)
            ut0  == RNeg(un1)
            ut1  == un0
            v1n  == RAdd(FMul(un0, this.velocity[1]), FMul(un1, this.velocity[2]))
            v1t  == RAdd(FMul(ut0, this.velocity[1]), FMul(ut1, this.velocity[2]))
            v2n  == RAdd(FMul(un0, dot.velocity[1]), FMul(un1, dot.velocity[2]))
            v2t  == RAdd(FMul(ut0, dot.velocity[1]), FMul(ut1, dot.velocity[2]))
            v1nPrime == v2n
            v2nPrime == v1n
            thisVelocity == <<RAdd(FMul(un0, v1nPrime), FMul(ut0, v1t)),
                              RAdd(FMul(un1, v1nPrime), FMul(ut1, v1t))>>
            dotVelocity  == <<RAdd(FMul(un0, v2nPrime), FMul(ut0, v2t)),
                              RAdd(FMul(un1, v2nPrime), FMul(ut1, v2t))>>
            half0 == FDiv(FMul(mtd0, F(1)), F(2))
            half1 == FDiv(FMul(mtd1, F(1)), F(2))
        IN  IF FALSE
            THEN [dots EXCEPT ![i] = [this EXCEPT !.x = RAdd(@, mtd0),
                                                  !.y = RAdd(@, mtd1),
                                                  !.velocity = thisVelocity]]
            ELSE IF FALSE
            THEN [dots EXCEPT ![j] = [dot EXCEPT !.x = RSub(@, mtd0),
                                                 !.y = RSub(@, mtd1),
                                                 !.velocity = dotVelocity]]
            ELSE [dots EXCEPT ![i] = [this EXCEPT !.x = RAdd(@, half0),
                                                  !.y = RAdd(@, half1),
                                                  !.velocity = thisVelocity],
                              ![j] = [dot EXCEPT !.x = RSub(@, half0),
                                                 !.y = RSub(@, half1),
                                                 !.velocity = dotVelocity]]

\* A variant of collideWithDot that leaves each dot its own normal velocity.
collideWithDot_KeepsVelocities(dots, i, j) ==
    LET this == dots[i]
        dot  == dots[j]
        n0   == RSub(this.x, dot.x)
        n1   == RSub(this.y, dot.y)
        dist == FSqrt(RAdd(FMul(n0, n0), FMul(n1, n1)))
    IN  IF i = j THEN dots
        ELSE IF RGt(dist, FMul(F(2), this.radius)) THEN dots
        ELSE
        LET distScalar == FDiv(RSub(FMul(F(2), this.radius), dist), dist)
            mtd0 == FMul(n0, distScalar)
            mtd1 == FMul(n1, distScalar)
            un0  == FDiv(FMul(n0, F(1)), dist)
            un1  == FDiv(FMul(n1, F(1)), dist)
            ut0  == RNeg(un1)
            ut1  == un0
            v1n  == RAdd(FMul(un0, this.velocity[1]), FMul(un1, this.velocity[2]))
            v1t  == RAdd(FMul(ut0, this.velocity[1]), FMul(ut1, this.velocity[2]))
            v2n  == RAdd(FMul(un0, dot.velocity[1]), FMul(un1, dot.velocity[2]))
            v2t  == RAdd(FMul(ut0, dot.velocity[1]), FMul(ut1, dot.velocity[2]))
            v1nPrime == v1n
            v2nPrime == v2n
            thisVelocity == <<RAdd(FMul(un0, v1nPrime), FMul(ut0, v1t)),
                              RAdd(FMul(un1, v1nPrime), FMul(ut1, v1t))>>
            dotVelocity  == <<RAdd(FMul(un0, v2nPrime), FMul(ut0, v2t)),
                              RAdd(FMul(un1, v2nPrime), FMul(ut1, v2t))>>
            half0 == FDiv(FMul(mtd0, F(1)), F(2))
            half1 == FDiv(FMul(mtd1, F(1)), F(2))
        IN  IF this.isRandom /\ ~dot.isRandom
            THEN [dots EXCEPT ![i] = [this EXCEPT !.x = RAdd(@, mtd0),
                                                  !.y = RAdd(@, mtd1),
                                                  !.velocity = thisVelocity]]
            ELSE IF ~this.isRandom /\ dot.isRandom
            THEN [dots EXCEPT ![j] = [dot EXCEPT !.x = RSub(@, mtd0),
                                                 !.y = RSub(@, mtd1),
                                                 !.velocity = dotVelocity]]
            ELSE [dots EXCEPT ![i] = [this EXCEPT !.x = RAdd(@, half0),
                                                  !.y = RAdd(@, half1),
                                                  !.velocity = thisVelocity],
                              ![j] = [dot EXCEPT !.x = RSub(@, half0),
                                                 !.y = RSub(@, half1),
                                                 !.velocity = dotVelocity]]

\* Dot.collideWithDot(dot), called on dots[i] with dots[j]: the dots afterwards.
collideWithDot(dots, i, j) ==
    LET this == dots[i]
        dot  == dots[j]
        n0   == RSub(this.x, dot.x)
        n1   == RSub(this.y, dot.y)
        dist == FSqrt(RAdd(FMul(n0, n0), FMul(n1, n1)))
    IN  IF i = j THEN dots
        ELSE IF RGt(dist, FMul(F(2), this.radius)) THEN dots
        ELSE
        LET distScalar == FDiv(RSub(FMul(F(2), this.radius), dist), dist)
            mtd0 == FMul(n0, distScalar)
            mtd1 == FMul(n1, distScalar)
            un0  == FDiv(FMul(n0, F(1)), dist)
            un1  == FDiv(FMul(n1, F(1)), dist)
            ut0  == RNeg(un1)
            ut1  == un0
            v1n  == RAdd(FMul(un0, this.velocity[1]), FMul(un1, this.velocity[2]))
            v1t  == RAdd(FMul(ut0, this.velocity[1]), FMul(ut1, this.velocity[2]))
            v2n  == RAdd(FMul(un0, dot.velocity[1]), FMul(un1, dot.velocity[2]))
            v2t  == RAdd(FMul(ut0, dot.velocity[1]), FMul(ut1, dot.velocity[2]))
            v1nPrime == v2n
            v2nPrime == v1n
            thisVelocity == <<RAdd(FMul(un0, v1nPrime), FMul(ut0, v1t)),
                              RAdd(FMul(un1, v1nPrime), FMul(ut1, v1t))>>
            dotVelocity  == <<RAdd(FMul(un0, v2nPrime), FMul(ut0, v2t)),
                              RAdd(FMul(un1, v2nPrime), FMul(ut1, v2t))>>
            half0 == FDiv(FMul(mtd0, F(1)), F(2))
            half1 == FDiv(FMul(mtd1, F(1)), F(2))
        IN  IF this.isRandom /\ ~dot.isRandom
            THEN [dots EXCEPT ![i] = [this EXCEPT !.x = RAdd(@, mtd0),
                                                  !.y = RAdd(@, mtd1),
                                                  !.velocity = thisVelocity]]
            ELSE IF ~this.isRandom /\ dot.isRandom
            THEN [dots EXCEPT ![j] = [dot EXCEPT !.x = RSub(@, mtd0),
                                                 !.y = RSub(@, mtd1),
                                                 !.velocity = dotVelocity]]
            ELSE [dots EXCEPT ![i] = [this EXCEPT !.x = RAdd(@, half0),
                                                  !.y = RAdd(@, half1),
                                                  !.velocity = thisVelocity],
                              ![j] = [dot EXCEPT !.x = RSub(@, half0),
                                                 !.y = RSub(@, half1),
                                                 !.velocity = dotVelocity]]

-----------------------------------------------------------------------------
(* MotionTutorialTrialWorld: construction and new trials.                  *)

\* Math.sin of a small non-negative integer, to two decimals.
Sin(k) ==
    CASE k = 0 -> I(0)
      [] k = 1 -> Rat(21, 25)
      [] k = 2 -> Rat(91, 100)
      [] k = 3 -> Rat(7, 50)
      [] k = 4 -> Rat(-19, 25)
      [] k = 5 -> Rat(-24, 25)
      [] OTHER -> Rat(-7, 25)

\* createGridPoints(xMin, xMax, yMin, yMax, spacing) of a world whose numberOfDots
\* is n: error is TRUE when it throws.
gridPoints(n, xMin, xMax, yMin, yMax, spacing) ==
    LET width   == RFloor(I(xMax - xMin))
        height  == RFloor(I(yMax - yMin))
        xOffset == width % spacing
        yOffset == height % spacing
        xLines  == RFloor(Rat(width - xOffset, spacing))
        yLines  == RFloor(Rat(height - yOffset, spacing))
        startX  == RAdd(I(xMin), Rat(xOffset, 2))
        startY  == RAdd(I(yMin), Rat(yOffset, 2))
        point(i, j) == <<RAdd(RAdd(startX, Sin(j)), I(i * spacing)),
                         RAdd(RAdd(startY, Sin(i)), I(j * spacing))>>
        all     == [k \in 1..(xLines * yLines) |->
                        point((k - 1) \div yLines, (k - 1) % yLines)]
        kept(pt) == /\ RLe(pt[1], RSub(I(xMax), Rat(xOffset, 2)))
                    /\ RGe(pt[1], RAdd(I(xMin), Rat(xOffset, 2)))
                    /\ RLe(pt[2], RSub(I(yMax), Rat(yOffset, 2)))
                    /\ RGe(pt[2], RAdd(I(yMin), Rat(yOffset, 2)))
    IN  IF xLines * yLines < n
        THEN [error |-> TRUE, points |-> <<>>]
        ELSE LET points == SelectSeq(all, kept)
             IN  [error |-> FALSE,
                  points |-> [k \in 1..Len(points) |->
                                 <<Fix(points[k][1]), Fix(points[k][2])>>]]

\* createGridPoints(xMin, xMax, yMin, yMax, spacing) of the world under test.
createGridPoints(xMin, xMax, yMin, yMax, spacing) ==
    gridPoints(numberOfDots, xMin, xMax, yMin, yMax, spacing)

leftGridPoints ==
    createGridPoints(leftMinX + dotRadius, leftMaxX - dotRadius,
                     patchMinY + dotRadius, patchMaxY - dotRadius,
                     Constants.DOT_SPAWN_SEPARATION_DISTANCE_MULTIPLIER
                         * dotSpawnSeparationDistance)

rightGridPoints ==
    createGridPoints(rightMinX + dotRadius, rightMaxX - dotRadius,
                     patchMinY + dotRadius, patchMaxY - dotRadius,
                     Constants.DOT_SPAWN_SEPARATION_DISTANCE_MULTIPLIER
                         * dotSpawnSeparationDistance)

\* The first numberOfDots entries of randoSequence(points): the index of the grid
\* point each dot gets, no point twice (0 where the sequence has run out).
Shuffles(points) ==
    {f \in [1..numberOfDots -> 0..Len(points)] :
        /\ \A i \in 1..numberOfDots : (f[i] = 0) <=> (i > Len(points))
        /\ \A i, j \in 1..numberOfDots : (i # j /\ f[i] # 0) => f[i] # f[j]}

\* Everything createDots and createNewTrial can draw at random.
Draws ==
    [shuffledLeft  : Shuffles(leftGridPoints.points),
     shuffledRight : Shuffles(rightGridPoints.points),
     side          : Sides,
     direction     : {"LEFT", "RIGHT"},
     ang           : [Sides -> [1..numberOfDots -> StartAngles]],
     timer         : [Sides -> [1..numberOfDots -> DirectionTimerStarts]]]

\* maxAliveTimeMultiplier after the test at the top of iteration i (i from 0), in a
\* world whose dotsToKill is toKill.
RECURSIVE multiplierAt(_, _)
multiplierAt(toKill, i) ==
    LET before == IF i = 0 THEN 1 ELSE multiplierAt(toKill, i - 1)
    IN  IF I(i) = RMul(toKill, I(before)) THEN before + 1 ELSE before

\* maxAliveTimeMultiplier after the test at the top of iteration i (i from 0).
maxAliveTimeMultiplier(i) == multiplierAt(dotsToKill, i)

\* numberOfCoherentDots at the top of iteration i (i from 0).
RECURSIVE numberOfCoherentDots(_, _)
numberOfCoherentDots(i, coherencePercent) ==
    IF i = 0 THEN 0
    ELSE LET n == numberOfCoherentDots(i - 1, coherencePercent)
         IN  IF RLt(RMul(Rat(n, numberOfDots), I(100)), coherencePercent)
             THEN n + 1
             ELSE n

\* A variant of isCoherentDot that tests currentCoherencePercent <= coherencePercent.
isCoherentDot_AtMost(side, i, coherencePercent, coherentSide) ==
    /\ coherentSide = side
    /\ RLe(RMul(Rat(numberOfCoherentDots(i - 1, coherencePercent), numberOfDots), I(100)),
           coherencePercent)

\* Whether iteration i (from 1 here) of the loop of createDots and createNewTrial
\* makes the dot of this side a coherent one.
isCoherentDot(side, i, coherencePercent, coherentSide) ==
    /\ coherentSide = side
    /\ RLt(RMul(Rat(numberOfCoherentDots(i - 1, coherencePercent), numberOfDots), I(100)),
           coherencePercent)

\* The dot that iteration i (from 1 here) of the loop of createDots and
\* createNewTrial leaves at index i of one side.
TrialDot(side, i, coherencePercent, draw) ==
    LET points   == IF side = "LEFT" THEN leftGridPoints.points ELSE rightGridPoints.points
        shuffled == IF side = "LEFT" THEN draw.shuffledLeft ELSE draw.shuffledRight
        pos      == points[shuffled[i]]
    IN  Dot(pos[1], pos[2], F(dotRadius),
            IF isCoherentDot(side, i, coherencePercent, draw.side)
            THEN draw.direction
            ELSE "RANDOM",
            dotMaxAliveTime * maxAliveTimeMultiplier(i - 1),
            draw.ang[side][i], draw.timer[side][i])

\* The first element of a set of draws, used for a dot that draws nothing.
NoAngle == CHOOSE a \in Angles : TRUE

NoStartAngle == CHOOSE a \in StartAngles : TRUE

NoTimer == CHOOSE t \in DirectionTimerStarts : TRUE

\* The draws of a trial that matter: a coherent dot draws no angle and no timer.
TrialDraws(coherencePercent) ==
    {d \in Draws :
        \A side \in Sides, i \in 1..numberOfDots :
            isCoherentDot(side, i, coherencePercent, d.side)
                => d.ang[side][i] = NoStartAngle /\ d.timer[side][i] = NoTimer}

\* createDots(): the dots pushed to one side.
createDots(side, coherencePercent, draw) ==
    [i \in 1..numberOfDots |-> TrialDot(side, i, coherencePercent, draw)]

\* A variant of createNewTrial that creates the dots of the new trial and pushes
\* them after the ones that are there.
createNewTrial_PushesDots(dots, side, coherencePercent, draw) ==
    dots \o createDots(side, coherencePercent, draw)

\* createNewTrial(): one side's dots after setPosition, setDirection, setTimers and
\* resetVelocity on each of the first numberOfDots of them: of the dot that was
\* there only the radius is left.
createNewTrial(dots, side, coherencePercent, draw) ==
    [i \in 1..Len(dots) |->
        IF i <= numberOfDots
        THEN [TrialDot(side, i, coherencePercent, draw) EXCEPT !.radius = dots[i].radius]
        ELSE dots[i]]

-----------------------------------------------------------------------------
(* AbstractMotionWorld: one frame of the dots.                             *)

\* checkWallCollisionLeftPatch / checkWallCollisionRightPatch
checkWallCollision(dot, side) ==
    LET b == Bounds(side)
    IN  IF RLe(RSub(dot.x, dot.radius), F(b.minX))
        THEN collideWithWall(dot, F(b.minX), dot.y)
        ELSE IF RGe(RAdd(dot.x, dot.radius), F(b.maxX))
        THEN collideWithWall(dot, F(b.maxX), dot.y)
        ELSE IF RLe(RSub(dot.y, dot.radius), F(b.minY))
        THEN collideWithWall(dot, dot.x, F(b.minY))
        ELSE IF RGe(RAdd(dot.y, dot.radius), F(b.maxY))
        THEN collideWithWall(dot, dot.x, F(b.maxY))
        ELSE dot

\* quadTree.clear() followed by quadTree.insert(dot) for every dot of a side.
quadTreeOf(dots, side) == [side |-> side, objects |-> [i \in 1..Len(dots) |-> i]]

\* quadTree.retrieve(possibleCollisions, dot): with no more dots than a node
\* holds, the tree is one leaf and every inserted dot is a candidate.
retrieve(tree, i) == tree.objects

\* possibleCollisions.forEach(otherDot => dot.collideWithDot(otherDot)), from
\* candidate k on.
RECURSIVE collideWithAll(_, _, _, _)
collideWithAll(dots, i, possibleCollisions, k) ==
    IF k > Len(possibleCollisions) THEN dots
    ELSE collideWithAll(collideWithDot(dots, i, possibleCollisions[k]), i,
                        possibleCollisions, k + 1)

\* The wall and collision loop of updateDots over one side's dots, from dot i on.
RECURSIVE checkCollisions(_, _, _, _)
checkCollisions(dots, side, tree, i) ==
    IF i > Len(dots) THEN dots
    ELSE LET walled == IF dots[i].isRandom
                       THEN [dots EXCEPT ![i] = checkWallCollision(@, side)]
                       ELSE dots
         IN  checkCollisions(collideWithAll(walled, i, retrieve(tree, i), 1),
                             side, tree, i + 1)

\* Values drawn for the two rando() calls of getRandomPosition.
Randos == {<<F(0), F(0)>>, <<Fix(Rat(1, 2)), Fix(Rat(1, 2))>>}

\* getRandomPosition(xMin, yMin, xMax, yMax); r holds the two numbers drawn.
getRandomPosition(xMin, yMin, xMax, yMax, r) ==
    <<RAdd(FMul(r[1], F(xMax - xMin)), F(xMin)),
      RAdd(FMul(r[2], F(yMax - yMin)), F(yMin))>>

\* Dot.resetAliveTimer()
resetAliveTimer(dot) == [dot EXCEPT !.aliveTimer = dot.maxAliveTimer]

\* A variant of the update-and-respawn loop that relocates a dot whose lifetime is
\* over and leaves its lifetime timer as it is.
updateAndRespawn_KeepsTimer(dot, side, delta, ang, r) ==
    LET b     == Bounds(side)
        moved == update(dot, delta, ang)
        pos   == getRandomPosition(b.minX + dotRadius, b.minY + dotRadius,
                                   b.maxX - dotRadius, b.maxY - dotRadius, r)
    IN  IF moved.aliveTimer <= 0
        THEN [moved EXCEPT !.x = pos[1], !.y = pos[2]]
        ELSE moved

\* The update-and-respawn loop of updateDots on one dot.
updateAndRespawn(dot, side, delta, ang, r) ==
    LET b     == Bounds(side)
        moved == update(dot, delta, ang)
        pos   == getRandomPosition(b.minX + dotRadius, b.minY + dotRadius,
                                   b.maxX - dotRadius, b.maxY - dotRadius, r)
    IN  IF moved.aliveTimer <= 0
        THEN [resetAliveTimer(moved) EXCEPT !.x = pos[1], !.y = pos[2]]
        ELSE moved

\* What updateDots draws for one side: an angle for each dot that turns and a
\* position for each dot that respawns.
FrameDraws(dots, delta) ==
    [ang : [1..Len(dots) -> Angles], pos : [1..Len(dots) -> Randos]]

NoRando == CHOOSE r \in Randos : TRUE

\* The draws of a frame that matter: dots that neither turn nor respawn draw nothing.
UsedDraws(dots, delta) ==
    {d \in FrameDraws(dots, delta) :
        \A i \in 1..Len(dots) :
            /\ (~TurnsRandomly(dots[i], delta)) => d.ang[i] = NoAngle
            /\ (dots[i].aliveTimer - delta > 0) => d.pos[i] = NoRando}

\* updateDots(delta) on one side once the run time is below its maximum: the
\* update-and-respawn loop over the dots the collision loop has left.
updateSide(dots, side, delta, draw) ==
    CHOOSE updated \in
        {[i \in 1..Len(collided) |->
             updateAndRespawn(collided[i], side, delta, draw.ang[i], draw.pos[i])] :
         collided \in {checkCollisions(dots, side, quadTreeOf(dots, side), 1)}} : TRUE

-----------------------------------------------------------------------------
(* The world as the screen drives it: update, responses and setState.      *)

\* The dots of the patch on one side.
DotsOf(side) == IF side = "LEFT" THEN dotsLeft ELSE dotsRight

\* Bound: the screen's maxSteps.
MaxSteps == 2

\* Bound: the screen's reversalPoints (FormWorld).
ReversalPoints == 1

FeedbackStates == {"TRIAL_CORRECT", "TRIAL_INCORRECT", "PATCH_SELECTED"}

\* createQuadTree: a tree holding nothing.
createQuadTree == [side |-> "NONE", objects |-> <<>>]

\* A variant of updateDots that pauses only once the run time is past its maximum.
updateDots_PausesLate(delta) ==
    /\ runTime' = runTime + delta
    /\ IF runTime + delta > maxRunTime
       THEN /\ currentState' = "PAUSED"
            /\ UNCHANGED <<dotsLeft, dotsRight, quadTree>>
       ELSE /\ \E dl \in UsedDraws(dotsLeft, delta) :
                   dotsLeft' = updateSide(dotsLeft, "LEFT", delta, dl)
            /\ \E dr \in UsedDraws(dotsRight, delta) :
                   dotsRight' = updateSide(dotsRight, "RIGHT", delta, dr)
            /\ quadTree' = quadTreeOf(dotsRight, "RIGHT")
            /\ UNCHANGED currentState
    /\ UNCHANGED <<feedbackTimer, coherentPatchSide, containersVisible, patchInteractive>>

\* AbstractMotionWorld.updateDots(delta)
updateDots(delta) ==
    /\ runTime' = runTime + delta
    /\ IF runTime + delta >= maxRunTime
       THEN /\ currentState' = "PAUSED"
            /\ UNCHANGED <<dotsLeft, dotsRight, quadTree>>
       ELSE /\ \E dl \in UsedDraws(dotsLeft, delta) :
                   dotsLeft' = updateSide(dotsLeft, "LEFT", delta, dl)
            /\ \E dr \in UsedDraws(dotsRight, delta) :
                   dotsRight' = updateSide(dotsRight, "RIGHT", delta, dr)
            /\ quadTree' = quadTreeOf(dotsRight, "RIGHT")
            /\ UNCHANGED currentState
    /\ UNCHANGED <<feedbackTimer, coherentPatchSide, containersVisible, patchInteractive>>

\* A variant of paused that resumes the trial once the run time is reset.
paused_Resumes ==
    /\ IF runTime >= maxRunTime
       THEN runTime' = 0 /\ containersVisible' = FALSE /\ currentState' = "RUNNING"
       ELSE UNCHANGED <<runTime, containersVisible, currentState>>
    /\ UNCHANGED <<feedbackTimer, coherentPatchSide, dotsLeft, dotsRight, quadTree,
                   patchInteractive>>

\* AbstractMotionWorld.paused()
paused ==
    /\ IF runTime >= maxRunTime
       THEN runTime' = 0 /\ containersVisible' = FALSE
       ELSE UNCHANGED <<runTime, containersVisible>>
    /\ UNCHANGED <<currentState, feedbackTimer, coherentPatchSide, dotsLeft, dotsRight,
                   quadTree, patchInteractive>>

\* MotionTutorialTrialWorld.reset(), without the state and the feedback timer.
reset ==
    /\ runTime' = 0
    /\ \E draw \in TrialDraws(coh[MOTION].coherencePercent) :
           /\ coherentPatchSide' = draw.side
           /\ dotsLeft' = createNewTrial(dotsLeft, "LEFT",
                                         coh[MOTION].coherencePercent, draw)
           /\ dotsRight' = createNewTrial(dotsRight, "RIGHT",
                                          coh[MOTION].coherencePercent, draw)
    /\ containersVisible' = TRUE

\* A variant of feedback that goes back to RUNNING without a reset.
feedback_NoReset(delta) ==
    IF feedbackTimer + delta >= maxFeedbackTime
    THEN IF stepCounter = MaxSteps
         THEN /\ currentState' = "FINISHED"
              /\ feedbackTimer' = 0
              /\ containersVisible' = FALSE
              /\ UNCHANGED <<runTime, coherentPatchSide, dotsLeft, dotsRight, quadTree,
                             patchInteractive>>
         ELSE /\ feedbackTimer' = 0
              /\ currentState' = "RUNNING"
              /\ UNCHANGED <<runTime, coherentPatchSide, dotsLeft, dotsRight, quadTree,
                             containersVisible, patchInteractive>>
    ELSE /\ feedbackTimer' = feedbackTimer + delta
         /\ containersVisible' = FALSE
         /\ UNCHANGED <<currentState, runTime, coherentPatchSide, dotsLeft, dotsRight,
                        quadTree, patchInteractive>>

\* MotionTutorialTrialWorld.feedback(delta)
feedback(delta) ==
    IF feedbackTimer + delta >= maxFeedbackTime
    THEN IF stepCounter = MaxSteps
         THEN /\ currentState' = "FINISHED"
              /\ feedbackTimer' = 0
              /\ containersVisible' = FALSE
              /\ UNCHANGED <<runTime, coherentPatchSide, dotsLeft, dotsRight, quadTree,
                             patchInteractive>>
         ELSE /\ feedbackTimer' = 0
              /\ reset
              /\ currentState' = "RUNNING"
              /\ UNCHANGED <<quadTree, patchInteractive>>
    ELSE /\ feedbackTimer' = feedbackTimer + delta
         /\ containersVisible' = FALSE
         /\ UNCHANGED <<currentState, runTime, coherentPatchSide, dotsLeft, dotsRight,
                        quadTree, patchInteractive>>

\* A variant of update that keeps the clock of a finished world running.
MotionTutorialTrialWorld_update_FinishedRuns(delta) ==
    CASE currentState = "RUNNING" -> updateDots(delta)
      [] currentState = "PAUSED" -> paused
      [] currentState \in {"TRIAL_CORRECT", "TRIAL_INCORRECT"} -> feedback(delta)
      [] currentState = "FINISHED" ->
            /\ containersVisible' = FALSE
            /\ patchInteractive' = FALSE
            /\ runTime' = runTime + delta
            /\ UNCHANGED <<currentState, feedbackTimer, coherentPatchSide,
                           dotsLeft, dotsRight, quadTree>>
      [] OTHER -> UNCHANGED <<currentState, runTime, feedbackTimer, coherentPatchSide,
                              dotsLeft, dotsRight, quadTree, containersVisible,
                              patchInteractive>>

\* MotionTutorialTrialWorld.update(delta)
MotionTutorialTrialWorld_update(delta) ==
    CASE currentState = "RUNNING" -> updateDots(delta)
      [] currentState = "PAUSED" -> paused
      [] currentState \in {"TRIAL_CORRECT", "TRIAL_INCORRECT"} -> feedback(delta)
      [] currentState = "FINISHED" ->
            /\ containersVisible' = FALSE
            /\ patchInteractive' = FALSE
            /\ UNCHANGED <<currentState, runTime, feedbackTimer, coherentPatchSide,
                           dotsLeft, dotsRight, quadTree>>
      [] OTHER -> UNCHANGED <<currentState, runTime, feedbackTimer, coherentPatchSide,
                              dotsLeft, dotsRight, quadTree, containersVisible,
                              patchInteractive>>

\* AbstractFormWorld.running(delta): the trial's run time advances and the world
\* pauses once the maximum run time has elapsed.
FormWorld_running(delta) ==
    /\ runTime' = runTime + delta
    /\ currentState' = IF runTime + delta >= maxRunTime THEN "PAUSED" ELSE currentState
    /\ UNCHANGED <<feedbackTimer, coherentPatchSide, dotsLeft, dotsRight, quadTree,
                   containersVisible, patchInteractive>>

\* AbstractFormWorld.paused()
FormWorld_paused ==
    /\ IF runTime >= maxRunTime
       THEN runTime' = 0 /\ containersVisible' = FALSE
       ELSE UNCHANGED <<runTime, containersVisible>>
    /\ UNCHANGED <<currentState, feedbackTimer, coherentPatchSide, dotsLeft, dotsRight,
                   quadTree, patchInteractive>>

\* FormWorld.reset(): the line segments are created anew, which re-rolls the side.
FormWorld_reset ==
    /\ runTime' = 0
    /\ \E side \in Sides : coherentPatchSide' = side

\* FormWorld.feedback(delta)
FormWorld_feedback(delta) ==
    IF RGe(I(feedbackTimer + delta), RDiv(I(maxFeedbackTime), Rat(5, 2)))
    THEN IF stepCounter = MaxSteps \/ reversalCounter = ReversalPoints
         THEN /\ currentState' = "FINISHED"
              /\ feedbackTimer' = 0
              /\ containersVisible' = FALSE
              /\ UNCHANGED <<runTime, coherentPatchSide, dotsLeft, dotsRight, quadTree,
                             patchInteractive>>
         ELSE /\ feedbackTimer' = 0
              /\ FormWorld_reset
              /\ containersVisible' = TRUE
              /\ currentState' = "RUNNING"
              /\ UNCHANGED <<dotsLeft, dotsRight, quadTree, patchInteractive>>
    ELSE /\ feedbackTimer' = feedbackTimer + delta
         /\ containersVisible' = FALSE
         /\ UNCHANGED <<currentState, runTime, coherentPatchSide, dotsLeft, dotsRight,
                        quadTree, patchInteractive>>

\* FormWorld.update(delta)
FormWorld_update(delta) ==
    CASE currentState = "FINISHED" ->
            UNCHANGED <<currentState, runTime, feedbackTimer, coherentPatchSide,
                        dotsLeft, dotsRight, quadTree, containersVisible,
                        patchInteractive>>
      [] currentState = "PAUSED" -> FormWorld_paused
      [] currentState = "PATCH_SELECTED" -> FormWorld_feedback(delta)
      [] currentState = "RUNNING" -> FormWorld_running(delta)
      [] OTHER -> UNCHANGED <<currentState, runTime, feedbackTimer, coherentPatchSide,
                              dotsLeft, dotsRight, quadTree, containersVisible,
                              patchInteractive>>

\* The screen's update(delta): one frame of the world under test.
Update(delta) ==
    /\ failure = "none"
    /\ IF world = MOTION
       THEN MotionTutorialTrialWorld_update(delta)
       ELSE FormWorld_update(delta)
    /\ lastCall' = "update"
    /\ UNCHANGED <<coh, world, button, stepCounter, reversalCounter, failure, collision, frame,
                   grid>>

\* world.setState(state), as the screen calls it: RUNNING to start the trial that is
\* showing and has not run yet, FINISHED to end the test.
SetState(state) ==
    /\ failure = "none"
    /\ state = "RUNNING" => currentState = "PAUSED" /\ runTime = 0 /\ containersVisible
    /\ currentState # state
    /\ currentState' = state
    /\ lastCall' = "setState"
    /\ UNCHANGED <<coh, world, button, runTime, feedbackTimer, stepCounter, reversalCounter,
                   coherentPatchSide, dotsLeft, dotsRight, quadTree, containersVisible,
                   patchInteractive, failure, collision, frame, grid>>

\* The screen's handler of a response: the step is counted and the world enters
\* its feedback state.
Respond(isCorrectAnswer, reversal) ==
    /\ failure = "none"
    /\ currentState \in {"RUNNING", "PAUSED"}
    /\ stepCounter < MaxSteps
    /\ stepCounter' = stepCounter + 1
    /\ IF world = FORM
       THEN /\ reversalCounter' = reversalCounter + (IF reversal THEN 1 ELSE 0)
            /\ reversalCounter' <= ReversalPoints
            /\ currentState' = "PATCH_SELECTED"
       ELSE /\ ~reversal
            /\ UNCHANGED reversalCounter
            /\ currentState' = IF isCorrectAnswer THEN "TRIAL_CORRECT"
                                                  ELSE "TRIAL_INCORRECT"
    /\ lastCall' = "respond"
    /\ UNCHANGED <<coh, world, button, runTime, feedbackTimer, coherentPatchSide, dotsLeft,
                   dotsRight, quadTree, containersVisible, patchInteractive, failure,
                   collision, frame, grid>>

\* The world after its constructor.
Init ==
    /\ button = <<>>
    /\ world \in Worlds
    /\ coh = [w \in Worlds |->
                [coherencePercent |-> I(Settings.DOT_COHERENCE_PERCENTAGE),
                 prev |-> I(Settings.DOT_COHERENCE_PERCENTAGE), factor |-> I(1),
                 isCorrectAnswer |-> TRUE, calls |-> 0]]
    /\ currentState = "PAUSED"
    /\ runTime = 0
    /\ feedbackTimer = 0
    /\ stepCounter = 0
    /\ reversalCounter = 0
    /\ quadTree = createQuadTree
    /\ containersVisible = TRUE
    /\ patchInteractive = TRUE
    /\ lastCall = "constructor"
    /\ collision = NoCollision
    /\ frame = NoFrame
    /\ grid = NoGrid
    /\ IF world = FORM
       THEN /\ coherentPatchSide \in Sides
            /\ dotsLeft = <<>>
            /\ dotsRight = <<>>
            /\ failure = "none"
       ELSE IF leftGridPoints.error \/ rightGridPoints.error
       THEN /\ coherentPatchSide = "LEFT"
            /\ dotsLeft = <<>>
            /\ dotsRight = <<>>
            /\ failure = "Cannot spawn dots"
       ELSE \E draw \in TrialDraws(I(Settings.DOT_COHERENCE_PERCENTAGE)) :
            /\ coherentPatchSide = draw.side
            /\ dotsLeft = createDots("LEFT", I(Settings.DOT_COHERENCE_PERCENTAGE), draw)
            /\ dotsRight = createDots("RIGHT", I(Settings.DOT_COHERENCE_PERCENTAGE), draw)
            /\ failure = "none"

Next ==
    \/ \E delta \in Deltas : Update(delta)
    \/ \E state \in {"RUNNING", "FINISHED"} : SetState(state)
    \/ \E ok \in BOOLEAN, rev \in BOOLEAN : Respond(ok, rev)

Spec == Init /\ [][Next]_vars

\* A test on which the subject never responds: the screen starts the trial and
\* keeps calling update.
NextUnanswered ==
    \/ \E delta \in Deltas : Update(delta)
    \/ SetState("RUNNING")

\* update(delta) called on a paused world.
UpdatePaused == currentState = "PAUSED" /\ \E delta \in Deltas : Update(delta)

\* The screen calls update on every frame; the fairness stated is what that gives
\* a paused world.
SpecUnanswered == Init /\ [][NextUnanswered]_vars /\ WF_vars(UpdatePaused)

-----------------------------------------------------------------------------
(* Dot.collideWithDot on a pair of dots of one patch.                      *)

\* Where the second dot of the pair is.
PairCentre == <<F(20), F(12)>>

\* Where the first dot is, relative to the second: touching, overlapping along an
\* axis and along a diagonal, at the same place, and apart.
PairOffsets ==
    {<<F(8), F(0)>>, <<F(-8), F(0)>>, <<F(3), F(4)>>, <<F(-4), F(3)>>, <<F(6), F(8)>>,
     <<F(0), F(5)>>, <<F(7), F(7)>>, <<F(1), F(2)>>, <<F(0), F(0)>>, <<F(12), F(0)>>}

\* Velocities a dot can have when it collides.
PairVelocities ==
    {<<F(1), F(0)>>, <<F(-1), F(0)>>, <<speed, F(0)>>,
     <<Fix(Rat(-3, 25)), Fix(Rat(-4, 25))>>}

\* A dot of the pair: a RANDOM dot or one moving RIGHT, with the given velocity.
PairDot(pos, isRandom, velocity) ==
    [Dot(pos[1], pos[2], F(dotRadius), IF isRandom THEN "RANDOM" ELSE "RIGHT",
         dotMaxAliveTime, NoStartAngle, NoTimer)
     EXCEPT !.velocity = velocity]

\* dots[i].collideWithDot(dots[j]) on the dots of the left patch.
CollideWithDot(i, j) ==
    /\ collision = NoCollision
    /\ dotsLeft' = collideWithDot(dotsLeft, i, j)
    /\ collision' = [this |-> i, dot |-> j, before |-> dotsLeft]
    /\ lastCall' = "collideWithDot"
    /\ UNCHANGED <<coh, world, button, currentState, runTime, feedbackTimer, stepCounter,
                   reversalCounter, coherentPatchSide, dotsRight, quadTree,
                   containersVisible, patchInteractive, failure, frame, grid>>

InitCollide ==
    /\ button = <<>>
    /\ world = MOTION
    /\ coh = [w \in Worlds |->
                [coherencePercent |-> I(Settings.DOT_COHERENCE_PERCENTAGE),
                 prev |-> I(Settings.DOT_COHERENCE_PERCENTAGE), factor |-> I(1),
                 isCorrectAnswer |-> TRUE, calls |-> 0]]
    /\ currentState = "RUNNING"
    /\ runTime = 0
    /\ feedbackTimer = 0
    /\ stepCounter = 0
    /\ reversalCounter = 0
    /\ coherentPatchSide = "LEFT"
    /\ \E n \in PairOffsets, v1 \in PairVelocities, v2 \in PairVelocities,
          r1 \in BOOLEAN, r2 \in BOOLEAN :
           dotsLeft = <<PairDot(<<RAdd(PairCentre[1], n[1]), RAdd(PairCentre[2], n[2])>>,
                                r1, v1),
                        PairDot(PairCentre, r2, v2)>>
    /\ dotsRight = <<>>
    /\ quadTree = createQuadTree
    /\ containersVisible = TRUE
    /\ patchInteractive = TRUE
    /\ failure = "none"
    /\ lastCall = "constructor"
    /\ collision = NoCollision
    /\ frame = NoFrame
    /\ grid = NoGrid

NextCollide == \E i \in 1..2, j \in 1..2 : CollideWithDot(i, j)

SpecCollide == InitCollide /\ [][NextCollide]_vars

-----------------------------------------------------------------------------
(* updateDots of the motion world, statement by statement.                 *)

\* A variant of quadTree.clear() that leaves the objects in the tree.
clear_KeepsObjects(tree) == tree

\* quadTree.clear()
clear(tree) == createQuadTree

\* quadTree.insert(dot), for dot i of a side.
insert(tree, side, i) == [side |-> side, objects |-> Append(tree.objects, i)]

\* One side's dots with the given ones in their place.
WithDots(side, dots) ==
    /\ dotsLeft' = IF side = "LEFT" THEN dots ELSE dotsLeft
    /\ dotsRight' = IF side = "RIGHT" THEN dots ELSE dotsRight

\* What no statement of updateDots after the run-time check changes.
FrameUnchanged ==
    UNCHANGED <<coh, world, button, currentState, runTime, feedbackTimer, stepCounter,
                reversalCounter, coherentPatchSide, containersVisible, patchInteractive,
                failure, collision, grid>>

\* update(delta) on a running world up to the run-time check of updateDots.
updateDots_runTime(delta) ==
    /\ world = MOTION
    /\ failure = "none"
    /\ currentState = "RUNNING"
    /\ frame.pc = "idle"
    /\ runTime' = runTime + delta
    /\ IF runTime + delta >= maxRunTime
       THEN /\ currentState' = "PAUSED"
            /\ lastCall' = "update"
            /\ UNCHANGED frame
       ELSE /\ frame' = [pc |-> "clear", side |-> "LEFT", i |-> 0, delta |-> delta,
                         placed |-> 0, candidate |-> <<>>]
            /\ UNCHANGED <<currentState, lastCall>>
    /\ UNCHANGED <<coh, world, button, feedbackTimer, stepCounter, reversalCounter,
                   coherentPatchSide, dotsLeft, dotsRight, quadTree, containersVisible,
                   patchInteractive, failure, collision, grid>>

\* this.quadTree.clear()
updateDots_clear ==
    /\ frame.pc = "clear"
    /\ quadTree' = clear(quadTree)
    /\ frame' = [frame EXCEPT !.pc = "insert", !.i = 1]
    /\ UNCHANGED <<dotsLeft, dotsRight, lastCall>>
    /\ FrameUnchanged

\* One turn of the forEach that inserts a side's dots into the quadtree.
updateDots_insert ==
    /\ frame.pc = "insert"
    /\ quadTree' = insert(quadTree, frame.side, frame.i)
    /\ frame' = IF frame.i < Len(DotsOf(frame.side))
                THEN [frame EXCEPT !.i = @ + 1]
                ELSE [frame EXCEPT !.pc = "collide", !.i = 1]
    /\ UNCHANGED <<dotsLeft, dotsRight, lastCall>>
    /\ FrameUnchanged

\* One turn of the collision loop: the wall check of dot i, the retrieve and the
\* collideWithDot calls.
updateDots_collide ==
    /\ frame.pc = "collide"
    /\ LET dots   == DotsOf(frame.side)
           walled == IF dots[frame.i].isRandom
                     THEN [dots EXCEPT ![frame.i] = checkWallCollision(@, frame.side)]
                     ELSE dots
       IN  WithDots(frame.side,
                    collideWithAll(walled, frame.i, retrieve(quadTree, frame.i), 1))
    /\ frame' = IF frame.i < Len(DotsOf(frame.side))
                THEN [frame EXCEPT !.i = @ + 1]
                ELSE [frame EXCEPT !.pc = "update", !.i = 1]
    /\ UNCHANGED <<quadTree, lastCall>>
    /\ FrameUnchanged

\* One turn of the forEach that updates a side's dots and respawns those whose
\* time is up; after the last dot of the right side updateDots returns.
updateDots_update ==
    /\ frame.pc = "update"
    /\ LET dots == DotsOf(frame.side)
           dot  == dots[frame.i]
           last == frame.i = Len(dots)
       IN  /\ \E ang \in Angles, r \in Randos :
                  /\ (~TurnsRandomly(dot, frame.delta)) => ang = NoAngle
                  /\ (dot.aliveTimer - frame.delta > 0) => r = NoRando
                  /\ WithDots(frame.side,
                              [dots EXCEPT ![frame.i] =
                                  updateAndRespawn(dot, frame.side, frame.delta, ang, r)])
           /\ frame' =
                  [pc     |-> IF ~last THEN "update"
                              ELSE IF frame.side = "LEFT" THEN "clear" ELSE "idle",
                   side   |-> IF last /\ frame.side = "LEFT" THEN "RIGHT"
                              ELSE IF last THEN "LEFT" ELSE frame.side,
                   i      |-> IF last THEN 0 ELSE frame.i + 1,
                   delta  |-> IF last /\ frame.side = "RIGHT" THEN 0 ELSE frame.delta,
                   placed |-> IF dot.aliveTimer - frame.delta <= 0 THEN frame.i ELSE 0,
                   candidate |-> <<>>]
           /\ lastCall' = IF last /\ frame.side = "RIGHT" THEN "update" ELSE lastCall
    /\ UNCHANGED quadTree
    /\ FrameUnchanged

NextFrame ==
    \/ SetState("RUNNING")
    \/ \E delta \in Deltas : updateDots_runTime(delta)
    \/ updateDots_clear
    \/ updateDots_insert
    \/ updateDots_collide
    \/ updateDots_update

SpecFrame == Init /\ [][NextFrame]_vars

-----------------------------------------------------------------------------
(* The collision loop of updateDots over a pair of dots of the left patch. *)

\* The left patch holds a pair of dots, both are in the quadtree and the
\* collision loop is about to take its first dot; collision holds the pair as it
\* enters the loop.
InitPass ==
    /\ button = <<>>
    /\ world = MOTION
    /\ coh = [w \in Worlds |->
                [coherencePercent |-> I(Settings.DOT_COHERENCE_PERCENTAGE),
                 prev |-> I(Settings.DOT_COHERENCE_PERCENTAGE), factor |-> I(1),
                 isCorrectAnswer |-> TRUE, calls |-> 0]]
    /\ currentState = "RUNNING"
    /\ runTime \in Deltas
    /\ feedbackTimer = 0
    /\ stepCounter = 0
    /\ reversalCounter = 0
    /\ coherentPatchSide = "LEFT"
    /\ \E n \in PairOffsets, v1 \in PairVelocities, v2 \in PairVelocities,
          r1 \in BOOLEAN, r2 \in BOOLEAN :
           dotsLeft = <<PairDot(<<RAdd(PairCentre[1], n[1]), RAdd(PairCentre[2], n[2])>>,
                                r1, v1),
                        PairDot(PairCentre, r2, v2)>>
    /\ dotsRight = <<>>
    /\ quadTree = quadTreeOf(dotsLeft, "LEFT")
    /\ containersVisible = TRUE
    /\ patchInteractive = TRUE
    /\ failure = "none"
    /\ lastCall = "constructor"
    /\ collision = [this |-> 1, dot |-> 2, before |-> dotsLeft]
    /\ frame = [NoFrame EXCEPT !.pc = "collide", !.i = 1, !.delta = runTime]
    /\ grid = NoGrid

NextPass == updateDots_collide

SpecPass == InitPass /\ [][NextPass]_vars

-----------------------------------------------------------------------------
(* The wall step of the collision loop of updateDots on one dot.           *)

\* Where the centre of the dot is along one axis, from the lower wall w0 to the
\* upper wall w1 of that axis: past the lower wall, on it, inside its reach, just
\* in its reach, clear of both walls, and the same at the upper wall.
WallCoordinates(w0, w1) ==
    {F(w0 - 2), F(w0), F(w0 + 3), F(w0 + dotRadius), F(w0 + dotRadius + 3),
     F(w1 - dotRadius), F(w1 - 2), F(w1), F(w1 + 2)}

\* Velocities of the dot: along an axis either way, and across both.
WallVelocities ==
    {<<speed, F(0)>>, <<RNeg(speed), F(0)>>, <<Fix(Rat(-3, 25)), Fix(Rat(-4, 25))>>,
     <<Fix(Rat(4, 25)), Fix(Rat(3, 25))>>}

\* A variant of the wall step that checks Fixed dots for wall collisions as well.
updateDots_wall_AnyDot ==
    /\ frame.pc = "wall"
    /\ WithDots(frame.side,
                [DotsOf(frame.side) EXCEPT ![frame.i] = checkWallCollision(@, frame.side)])
    /\ collision' = [this |-> frame.i, dot |-> 0, before |-> DotsOf(frame.side)]
    /\ frame' = [frame EXCEPT !.pc = "retrieve"]
    /\ lastCall' = "checkWallCollision"
    /\ UNCHANGED <<coh, world, button, currentState, runTime, feedbackTimer, stepCounter,
                   reversalCounter, coherentPatchSide, quadTree, containersVisible,
                   patchInteractive, failure, grid>>

\* if (dot.isRandom) { this.checkWallCollisionLeftPatch(dot) } (and the same for
\* the right patch) on dot frame.i; collision holds the side's dots as they were.
updateDots_wall ==
    /\ frame.pc = "wall"
    /\ WithDots(frame.side,
                IF DotsOf(frame.side)[frame.i].isRandom
                THEN [DotsOf(frame.side) EXCEPT
                         ![frame.i] = checkWallCollision(@, frame.side)]
                ELSE DotsOf(frame.side))
    /\ collision' = [this |-> frame.i, dot |-> 0, before |-> DotsOf(frame.side)]
    /\ frame' = [frame EXCEPT !.pc = "retrieve"]
    /\ lastCall' = "checkWallCollision"
    /\ UNCHANGED <<coh, world, button, currentState, runTime, feedbackTimer, stepCounter,
                   reversalCounter, coherentPatchSide, quadTree, containersVisible,
                   patchInteractive, failure, grid>>

\* One dot in one of the patches, in the quadtree, and the collision loop at its
\* wall step.
InitWall ==
    /\ button = <<>>
    /\ world = MOTION
    /\ coh = [w \in Worlds |->
                [coherencePercent |-> I(Settings.DOT_COHERENCE_PERCENTAGE),
                 prev |-> I(Settings.DOT_COHERENCE_PERCENTAGE), factor |-> I(1),
                 isCorrectAnswer |-> TRUE, calls |-> 0]]
    /\ currentState = "RUNNING"
    /\ runTime \in Deltas
    /\ feedbackTimer = 0
    /\ stepCounter = 0
    /\ reversalCounter = 0
    /\ coherentPatchSide = "LEFT"
    /\ \E side \in Sides :
           /\ \E x \in WallCoordinates(Bounds(side).minX, Bounds(side).maxX),
                 y \in WallCoordinates(Bounds(side).minY, Bounds(side).maxY),
                 v \in WallVelocities, isRandom \in BOOLEAN :
                  /\ dotsLeft = IF side = "LEFT"
                                THEN <<PairDot(<<x, y>>, isRandom, v)>> ELSE <<>>
                  /\ dotsRight = IF side = "RIGHT"
                                 THEN <<PairDot(<<x, y>>, isRandom, v)>> ELSE <<>>
           /\ quadTree = [side |-> side, objects |-> <<1>>]
           /\ frame = [NoFrame EXCEPT !.pc = "wall", !.side = side, !.i = 1,
                                      !.delta = runTime]
    /\ containersVisible = TRUE
    /\ patchInteractive = TRUE
    /\ failure = "none"
    /\ lastCall = "constructor"
    /\ collision = NoCollision
    /\ grid = NoGrid

NextWall == updateDots_wall

SpecWall == InitWall /\ [][NextWall]_vars

-----------------------------------------------------------------------------
(* getFreeSpotInPatch of the second version of AbstractMotionWorld, turn   *)
(* by turn of its do-while loop.                                           *)

\* euclideanDistance(x1, y1, x2, y2)
euclideanDistance(x1, y1, x2, y2) ==
    IF x1[2] = 1 /\ y1[2] = 1 /\ x2[2] = 1 /\ y2[2] = 1
    THEN CHOOSE d \in {<<ISqrt(dx * dx + dy * dy), 1>> :
                           dx \in {x1[1] - x2[1]}, dy \in {y1[1] - y2[1]}} : TRUE
    ELSE FSqrt(RAdd(FMul(RSub(x1, x2), RSub(x1, x2)), FMul(RSub(y1, y2), RSub(y1, y2))))

\* freeSpot(x, y, dots)
freeSpot(x, y, dots) ==
    \A i \in 1..Len(dots) :
        ~RLe(euclideanDistance(x, y, dots[i].x, dots[i].y), F(dotSpacing + 2 * dotRadius))

\* Values drawn for the two rando() calls of one turn of the loop.
FreeSpotRandos ==
    {<<a, b>> : a \in {F(0), Fix(Rat(1, 2)), Fix(Rat(999, 1000))},
                b \in {F(0), Fix(Rat(1, 2)), Fix(Rat(999, 1000))}}

\* Where the dots of the patch can be when one of them is respawned: at the grid
\* points, in the middle of either half of the patch, and in a corner.
FreeSpotPositions ==
    {<<Fix(Rat(13, 2)), Fix(Rat(13, 2))>>, <<Fix(Rat(37, 2)), Fix(Rat(367, 50))>>,
     <<F(12), F(12)>>, <<F(25), F(13)>>, <<F(30), F(18)>>}

\* The point a turn of the loop draws.
FreeSpotCandidate(r) ==
    getRandomPosition(leftMinX + dotRadius, patchMinY + dotRadius,
                      leftMaxX - dotRadius, patchMaxY - dotRadius, r)

\* One turn of the do-while loop of getFreeSpotInPatch, called by updateDots for
\* dot frame.i of the left patch: the loop is left when the point drawn is free,
\* and the dot is put there.
getFreeSpotInPatch_turn(r) ==
    /\ frame.pc = "getFreeSpotInPatch"
    /\ \E pos \in {FreeSpotCandidate(r)} :
           IF freeSpot(pos[1], pos[2], dotsLeft)
           THEN /\ dotsLeft' = [dotsLeft EXCEPT ![frame.i] =
                                   [@ EXCEPT !.x = pos[1], !.y = pos[2]]]
                /\ frame' = [frame EXCEPT !.pc = "returned", !.placed = frame.i,
                                          !.candidate = pos]
           ELSE /\ frame' = [frame EXCEPT !.candidate = pos]
                /\ UNCHANGED dotsLeft
    /\ UNCHANGED <<coh, world, button, currentState, runTime, feedbackTimer, stepCounter,
                   reversalCounter, coherentPatchSide, dotsRight, quadTree,
                   containersVisible, patchInteractive, failure, lastCall, collision,
                   grid>>

\* A turn of the loop that draws a free point.
getFreeSpotInPatch_found ==
    \E r \in FreeSpotRandos :
        /\ \E pos \in {FreeSpotCandidate(r)} : freeSpot(pos[1], pos[2], dotsLeft)
        /\ getFreeSpotInPatch_turn(r)

InitFreeSpot ==
    /\ button = <<>>
    /\ world = MOTION
    /\ coh = [w \in Worlds |->
                [coherencePercent |-> I(Settings.DOT_COHERENCE_PERCENTAGE),
                 prev |-> I(Settings.DOT_COHERENCE_PERCENTAGE), factor |-> I(1),
                 isCorrectAnswer |-> TRUE, calls |-> 0]]
    /\ currentState = "RUNNING"
    /\ runTime = 0
    /\ feedbackTimer = 0
    /\ stepCounter = 0
    /\ reversalCounter = 0
    /\ coherentPatchSide = "RIGHT"
    /\ \E p1 \in FreeSpotPositions, p2 \in FreeSpotPositions :
           dotsLeft = <<PairDot(p1, TRUE, <<speed, F(0)>>),
                        PairDot(p2, TRUE, <<speed, F(0)>>)>>
    /\ dotsRight = <<>>
    /\ quadTree = createQuadTree
    /\ containersVisible = TRUE
    /\ patchInteractive = TRUE
    /\ failure = "none"
    /\ lastCall = "update"
    /\ collision = NoCollision
    /\ \E i \in 1..2 : frame = [NoFrame EXCEPT !.pc = "getFreeSpotInPatch", !.i = i]
    /\ grid = NoGrid

NextFreeSpot == \E r \in FreeSpotRandos : getFreeSpotInPatch_turn(r)

\* rando() is uniform: the loop goes on as long as it has not returned, and a
\* free point that can be drawn again and again is drawn at some time.
SpecFreeSpot ==
    /\ InitFreeSpot
    /\ [][NextFreeSpot]_vars
    /\ WF_vars(NextFreeSpot)
    /\ SF_vars(getFreeSpotInPatch_found)

-----------------------------------------------------------------------------
(* Trials of the motion world at the coherences updateCoherency can leave: *)
(* the constructor's createDots, then updateCoherency and reset in turn.   *)

\* Bound: the answers given in a run of trials.
MaxTrialCalls == 2

\* motionTutorialTrialWorld.updateCoherency(factor, isCorrectAnswer) between trials.
TrialUpdateCoherency(factor, isCorrectAnswer) ==
    /\ coh[MOTION].calls < MaxTrialCalls
    /\ MotionUpdateCoherency(factor, isCorrectAnswer)
    /\ lastCall' = "updateCoherency"
    /\ UNCHANGED <<world, button, currentState, runTime, feedbackTimer, stepCounter,
                   reversalCounter, coherentPatchSide, dotsLeft, dotsRight, quadTree,
                   containersVisible, patchInteractive, failure, collision, frame, grid>>

\* motionTutorialTrialWorld.reset(): createNewTrial at the current coherencePercent.
TrialReset ==
    /\ reset
    /\ lastCall' = "reset"
    /\ UNCHANGED <<coh, world, button, currentState, feedbackTimer, stepCounter, reversalCounter,
                   quadTree, patchInteractive, failure, collision, frame, grid>>

\* The motion world after its constructor, for each coherence setting.
InitTrial ==
    /\ button = <<>>
    /\ CohInit
    /\ world = MOTION
    /\ currentState = "PAUSED"
    /\ runTime = 0
    /\ feedbackTimer = 0
    /\ stepCounter = 0
    /\ reversalCounter = 0
    /\ quadTree = createQuadTree
    /\ containersVisible = TRUE
    /\ patchInteractive = TRUE
    /\ failure = "none"
    /\ lastCall = "constructor"
    /\ collision = NoCollision
    /\ frame = NoFrame
    /\ grid = NoGrid
    /\ \E draw \in TrialDraws(coh[MOTION].coherencePercent) :
           /\ coherentPatchSide = draw.side
           /\ dotsLeft = createDots("LEFT", coh[MOTION].coherencePercent, draw)
           /\ dotsRight = createDots("RIGHT", coh[MOTION].coherencePercent, draw)

NextTrial ==
    \/ \E f \in Factors, ok \in BOOLEAN : TrialUpdateCoherency(f, ok)
    \/ TrialReset

SpecTrial == InitTrial /\ [][NextTrial]_vars

-----------------------------------------------------------------------------
(* The constructor's createGridPoints and createDots for the left patch,   *)
(* over patches and populations of several sizes.                          *)

\* Populations the world is configured with.
GridDots == 1..6

\* Widths and heights of the rectangle handed to createGridPoints.
GridWidths == {12, 30, 60}

GridHeights == {12, 30, 60, 84}

\* The orders randoSequence can give the grid points: as they are, and reversed.
GridShuffles(points) ==
    {points, [k \in 1..Len(points) |-> points[Len(points) + 1 - k]]}

\* this.leftGridPoints = this.createGridPoints(...) in the constructor.
CreateGridPoints ==
    /\ ~grid.called
    /\ LET made == gridPoints(grid.numberOfDots,
                              leftMinX + dotRadius, grid.xMax,
                              patchMinY + dotRadius, grid.yMax,
                              Constants.DOT_SPAWN_SEPARATION_DISTANCE_MULTIPLIER
                                  * dotSpawnSeparationDistance)
       IN  /\ grid' = [grid EXCEPT !.called = TRUE, !.error = made.error,
                                   !.points = made.points]
           /\ failure' = IF made.error THEN "Cannot spawn dots" ELSE failure
    /\ lastCall' = "createGridPoints"
    /\ UNCHANGED <<coh, world, button, currentState, runTime, feedbackTimer, stepCounter,
                   reversalCounter, coherentPatchSide, dotsLeft, dotsRight, quadTree,
                   containersVisible, patchInteractive, collision, frame>>

\* this.createDots() in the constructor, for the left patch: dot i is put at
\* shuffledLeftGridPoints[i].value, which is a TypeError when the sequence has
\* no such entry.
CreateDots ==
    /\ grid.called
    /\ failure = "none"
    /\ lastCall = "createGridPoints"
    /\ \E shuffled \in GridShuffles(grid.points) :
           IF Len(shuffled) < grid.numberOfDots
           THEN /\ failure' = "TypeError"
                /\ dotsLeft' = [i \in 1..Len(shuffled) |->
                                   Dot(shuffled[i][1], shuffled[i][2], F(dotRadius), "RANDOM",
                                       dotMaxAliveTime, NoStartAngle, NoTimer)]
           ELSE /\ dotsLeft' = [i \in 1..grid.numberOfDots |->
                                   Dot(shuffled[i][1], shuffled[i][2], F(dotRadius), "RANDOM",
                                       dotMaxAliveTime, NoStartAngle, NoTimer)]
                /\ UNCHANGED failure
    /\ lastCall' = "createDots"
    /\ UNCHANGED <<coh, world, button, currentState, runTime, feedbackTimer, stepCounter,
                   reversalCounter, coherentPatchSide, dotsRight, quadTree,
                   containersVisible, patchInteractive, collision, frame, grid>>

InitGrid ==
    /\ button = <<>>
    /\ world = MOTION
    /\ coh = [w \in Worlds |->
                [coherencePercent |-> I(0), prev |-> I(0), factor |-> I(1),
                 isCorrectAnswer |-> TRUE, calls |-> 0]]
    /\ currentState = "PAUSED"
    /\ runTime = 0
    /\ feedbackTimer = 0
    /\ stepCounter = 0
    /\ reversalCounter = 0
    /\ coherentPatchSide = "LEFT"
    /\ dotsLeft = <<>>
    /\ dotsRight = <<>>
    /\ quadTree = createQuadTree
    /\ containersVisible = TRUE
    /\ patchInteractive = TRUE
    /\ failure = "none"
    /\ lastCall = "constructor"
    /\ collision = NoCollision
    /\ frame = NoFrame
    /\ \E n \in GridDots, w \in GridWidths, h \in GridHeights :
           grid = [NoGrid EXCEPT !.numberOfDots = n,
                                 !.xMax = leftMinX + dotRadius + w,
                                 !.yMax = patchMinY + dotRadius + h]

NextGrid == CreateGridPoints \/ CreateDots

SpecGrid == InitGrid /\ [][NextGrid]_vars

-----------------------------------------------------------------------------
(* The lifetimes createDots and createNewTrial give the dots of a side,    *)
(* over kill percentages and populations of several sizes.                 *)

\* Settings.DOT_KILL_PERCENTAGE: percentages above 0 and below 100.
KillPercentages == {5, 10, 20, 25, 40, 50, 60, 75, 80, 90}

\* The loop of createDots ("createDots") or of createNewTrial ("createNewTrial"):
\* dot i gets this.dotMaxAliveTime * maxAliveTimeMultiplier as its lifetime.
setLifetimes(call) ==
    /\ lastCall = (IF call = "createDots" THEN "constructor" ELSE "createDots")
    /\ grid' = [grid EXCEPT !.lifetimes =
                   [i \in 1..grid.numberOfDots |->
                       dotMaxAliveTime * multiplierAt(grid.dotsToKill, i - 1)]]
    /\ lastCall' = call
    /\ UNCHANGED <<coh, world, button, currentState, runTime, feedbackTimer, stepCounter,
                   reversalCounter, coherentPatchSide, dotsLeft, dotsRight, quadTree,
                   containersVisible, patchInteractive, failure, collision, frame>>

\* The constructor of AbstractMotionWorld has set numberOfDots and dotsToKill.
InitStagger ==
    /\ button = <<>>
    /\ world = MOTION
    /\ coh = [w \in Worlds |->
                [coherencePercent |-> I(Settings.DOT_COHERENCE_PERCENTAGE),
                 prev |-> I(Settings.DOT_COHERENCE_PERCENTAGE), factor |-> I(1),
                 isCorrectAnswer |-> TRUE, calls |-> 0]]
    /\ currentState = "PAUSED"
    /\ runTime = 0
    /\ feedbackTimer = 0
    /\ stepCounter = 0
    /\ reversalCounter = 0
    /\ coherentPatchSide = "LEFT"
    /\ dotsLeft = <<>>
    /\ dotsRight = <<>>
    /\ quadTree = createQuadTree
    /\ containersVisible = TRUE
    /\ patchInteractive = TRUE
    /\ failure = "none"
    /\ lastCall = "constructor"
    /\ collision = NoCollision
    /\ frame = NoFrame
    /\ \E n \in GridDots, k \in KillPercentages :
           grid = [NoGrid EXCEPT !.numberOfDots = n, !.dotsToKill = Rat(k * n, 100)]

NextStagger == \E call \in {"createDots", "createNewTrial"} : setLifetimes(call)

SpecStagger == InitStagger /\ [][NextStagger]_vars

-----------------------------------------------------------------------------
(* TextButton: the listeners of a button that was created with a text.     *)

\* Bound: how many times onClickTextOffset the text may be away from its rest
\* position before the model stops following it.
MaxDrift == 4

\* this.on(event, ...): the listeners of one event, in the order in which the
\* constructor registered them: the listener of the text, then, for a button with
\* a hover colour, the listener that redraws the shape. target is e.target of a
\* touchmove.
TextButton_on(event, target) ==
    LET onClickTextOffset == 3
        down == button.isMouseDown
        text ==
            CASE event \in {"mousedown", "touchstart"} ->
                    IF ~down
                    THEN [button EXCEPT !.textY = @ + onClickTextOffset,
                                        !.isMouseDown = TRUE]
                    ELSE button
              [] event \in {"mouseup", "touchend"} ->
                    IF down
                    THEN [button EXCEPT !.textY = @ - onClickTextOffset,
                                        !.isMouseDown = FALSE]
                    ELSE button
              [] event = "mouseout" ->
                    IF down THEN [button EXCEPT !.textY = @ - onClickTextOffset]
                    ELSE button
              [] event = "mouseover" ->
                    IF down THEN [button EXCEPT !.textY = @ + onClickTextOffset]
                    ELSE button
              [] event = "mouseupoutside" -> [button EXCEPT !.isMouseDown = FALSE]
              [] event = "touchmove" ->
                    IF target = "null" /\ down
                    THEN [button EXCEPT !.textY = @ - onClickTextOffset,
                                        !.isMouseDown = FALSE]
                    ELSE button
        fill ==
            IF ~button.hoverColor THEN button.fill
            ELSE CASE event \in {"mouseover", "touchstart"} -> "hoverColor"
                   [] event \in {"mouseout", "touchend"} -> "color"
                   [] event = "touchmove" /\ target = "null" -> "color"
                   [] OTHER -> button.fill
    IN  /\ text.textY - button.buttonHeight \div 2 <= MaxDrift * onClickTextOffset
        /\ button.buttonHeight \div 2 - text.textY <= MaxDrift * onClickTextOffset
        /\ button' = [text EXCEPT !.fill = fill]
        /\ UNCHANGED <<coh, world, currentState, runTime, feedbackTimer, stepCounter,
                       reversalCounter, coherentPatchSide, dotsLeft, dotsRight, quadTree,
                       containersVisible, patchInteractive, failure, lastCall, collision,
                       frame, grid>>

\* new TextButton(x, y, width, height, color, strokeColor, buttonText, ...) with a
\* text, with or without a hover colour: the text is centred, the mouse is up.
InitButton ==
    /\ world = MOTION
    /\ coh = [w \in Worlds |->
                [coherencePercent |-> I(Settings.DOT_COHERENCE_PERCENTAGE),
                 prev |-> I(Settings.DOT_COHERENCE_PERCENTAGE), factor |-> I(1),
                 isCorrectAnswer |-> TRUE, calls |-> 0]]
    /\ currentState = "PAUSED"
    /\ runTime = 0
    /\ feedbackTimer = 0
    /\ stepCounter = 0
    /\ reversalCounter = 0
    /\ coherentPatchSide = "LEFT"
    /\ dotsLeft = <<>>
    /\ dotsRight = <<>>
    /\ quadTree = createQuadTree
    /\ containersVisible = TRUE
    /\ patchInteractive = TRUE
    /\ failure = "none"
    /\ lastCall = "constructor"
    /\ collision = NoCollision
    /\ frame = NoFrame
    /\ grid = NoGrid
    /\ \E height \in {40, 60, 100}, hoverColor \in BOOLEAN :
           button = [buttonHeight |-> height, hoverColor |-> hoverColor,
                     isMouseDown |-> FALSE, textY |-> height \div 2, fill |-> "color"]

NextButton ==
    \E event \in {"mousedown", "mouseup", "mouseout", "mouseover", "mouseupoutside",
                  "touchstart", "touchmove", "touchend"},
       target \in {"null", "button"} :
        TextButton_on(event, target)

SpecButton == InitButton /\ [][NextButton]_vars

-----------------------------------------------------------------------------
(* Properties of Dot.collideWithDot, checked under SpecCollide.            *)

\* The distance between the centres of two dots, as collideWithDot computes it.
Dist(a, b) ==
    LET n0 == RSub(a.x, b.x)
        n1 == RSub(a.y, b.y)
    IN  FSqrt(RAdd(FMul(n0, n0), FMul(n1, n1)))

\* What the cutting of products, quotients and square roots can add up to in one
\* collideWithDot call.
Tolerance == Fix(Rat(1, 100))

\* Two numbers are equal up to the tolerance.
Near(a, b) == RLe(RSub(a, b), Tolerance) /\ RLe(RSub(b, a), Tolerance)

\* The caller and the argument of the last collideWithDot call, before and after it.
ThisBefore == collision.before[collision.this]

DotBefore == collision.before[collision.dot]

ThisAfter == dotsLeft[collision.this]

DotAfter == dotsLeft[collision.dot]

\* The last collideWithDot call found two distinct dots at a distance d with
\* 0 < d <= 2 * radius.
Resolved ==
    /\ collision # NoCollision
    /\ collision.this # collision.dot
    /\ RGt(Dist(ThisBefore, DotBefore), F(0))
    /\ RLe(Dist(ThisBefore, DotBefore), FMul(F(2), ThisBefore.radius))

\* The length of the displacement of a dot from where it was.
Displacement(before, after) ==
    LET d0 == RSub(after.x, before.x)
        d1 == RSub(after.y, before.y)
    IN  FSqrt(RAdd(FMul(d0, d0), FMul(d1, d1)))

\* The overlap the last call found: 2 * radius less the distance.
Penetration == RSub(FMul(F(2), ThisBefore.radius), Dist(ThisBefore, DotBefore))

\* The unit normal of the last call, from the argument to the caller, and the
\* components of a velocity along it and across it.
UnitNormal ==
    <<FDiv(RSub(ThisBefore.x, DotBefore.x), Dist(ThisBefore, DotBefore)),
      FDiv(RSub(ThisBefore.y, DotBefore.y), Dist(ThisBefore, DotBefore))>>

NormalPart(v) == RAdd(FMul(UnitNormal[1], v[1]), FMul(UnitNormal[2], v[2]))

TangentPart(v) == RAdd(FMul(RNeg(UnitNormal[2]), v[1]), FMul(UnitNormal[1], v[2]))

\* A dot has moved by k along the unit normal.
MovedAlongNormal(before, after, k) ==
    /\ Near(RSub(after.x, before.x), FMul(k, UnitNormal[1]))
    /\ Near(RSub(after.y, before.y), FMul(k, UnitNormal[2]))

\* Everything of a dot but its position and velocity is as it was.
SameDotElsewhere(before, after) ==
    after = [before EXCEPT !.x = after.x, !.y = after.y, !.velocity = after.velocity]

\* C12: after collideWithDot has resolved two distinct dots found at a centre
\* distance d with 0 < d <= 2 * radius, their centre distance is 2 * radius (up to
\* the tolerance of the arithmetic) and not smaller than d, whatever the modes of
\* the two dots.
C12_SeparatedAfterCollision ==
    Resolved =>
        /\ Near(Dist(ThisAfter, DotAfter), FMul(F(2), ThisBefore.radius))
        /\ RGe(Dist(ThisAfter, DotAfter), Dist(ThisBefore, DotBefore))

\* A Random dot has collided with a Fixed dot half a diameter away and the two are
\* now a diameter apart.
C12_Witness ==
    /\ Resolved
    /\ ThisBefore.isRandom
    /\ ~DotBefore.isRandom
    /\ Dist(ThisBefore, DotBefore) = F(dotRadius)
    /\ Dist(ThisAfter, DotAfter) = F(2 * dotRadius)

\* C13: when collideWithDot resolves a Random dot and a Fixed dot, whichever of
\* the two is the caller, the Fixed dot is left as it was; the Random dot is moved
\* by the full overlap, to a diameter from the Fixed dot, and its velocity takes
\* the Fixed dot's component along the normal and keeps its own across it.
C13_FixedDotUntouched ==
    (Resolved /\ ThisBefore.isRandom # DotBefore.isRandom) =>
        LET randomIsCaller == ThisBefore.isRandom
            fixedBefore    == IF randomIsCaller THEN DotBefore ELSE ThisBefore
            fixedAfter     == IF randomIsCaller THEN DotAfter ELSE ThisAfter
            randomBefore   == IF randomIsCaller THEN ThisBefore ELSE DotBefore
            randomAfter    == IF randomIsCaller THEN ThisAfter ELSE DotAfter
        IN  /\ fixedAfter = fixedBefore
            /\ SameDotElsewhere(randomBefore, randomAfter)
            /\ MovedAlongNormal(randomBefore, randomAfter,
                                IF randomIsCaller THEN Penetration ELSE RNeg(Penetration))
            /\ Near(Dist(randomAfter, fixedAfter), FMul(F(2), ThisBefore.radius))
            /\ Near(NormalPart(randomAfter.velocity), NormalPart(fixedBefore.velocity))
            /\ Near(TangentPart(randomAfter.velocity), TangentPart(randomBefore.velocity))

\* A Fixed dot has called collideWithDot on an overlapping Random dot: the Random
\* dot has moved and has another velocity, the Fixed dot is as it was.
C13_Witness ==
    /\ Resolved
    /\ ~ThisBefore.isRandom
    /\ DotBefore.isRandom
    /\ RGt(Penetration, F(0))
    /\ ThisAfter = ThisBefore
    /\ <<DotAfter.x, DotAfter.y>> # <<DotBefore.x, DotBefore.y>>
    /\ DotAfter.velocity # DotBefore.velocity

\* The collision of the scenario: two dots 8 apart with velocities (1,0) and (-1,0).
HeadOn ==
    /\ Dist(ThisBefore, DotBefore) = F(8)
    /\ ThisBefore.velocity = <<F(1), F(0)>>
    /\ DotBefore.velocity = <<F(-1), F(0)>>

\* C20: when collideWithDot resolves two Random dots or two Fixed dots, the two are
\* moved by half the overlap each, in opposite directions, to a diameter from each
\* other; their velocity components along the normal are exchanged and those
\* across it are kept, so that the sum of the two velocities is kept; dots 8
\* apart with velocities (1,0) and (-1,0) end with (-1,0) and (1,0).
C20_SameModeCollision ==
    (Resolved /\ ThisBefore.isRandom = DotBefore.isRandom) =>
        /\ SameDotElsewhere(ThisBefore, ThisAfter)
        /\ SameDotElsewhere(DotBefore, DotAfter)
        /\ RSub(ThisAfter.x, ThisBefore.x) = RSub(DotBefore.x, DotAfter.x)
        /\ RSub(ThisAfter.y, ThisBefore.y) = RSub(DotBefore.y, DotAfter.y)
        /\ MovedAlongNormal(ThisBefore, ThisAfter, FDiv(Penetration, F(2)))
        /\ MovedAlongNormal(DotBefore, DotAfter, RNeg(FDiv(Penetration, F(2))))
        /\ Near(Dist(ThisAfter, DotAfter), FMul(F(2), ThisBefore.radius))
        /\ Near(NormalPart(ThisAfter.velocity), NormalPart(DotBefore.velocity))
        /\ Near(NormalPart(DotAfter.velocity), NormalPart(ThisBefore.velocity))
        /\ Near(TangentPart(ThisAfter.velocity), TangentPart(ThisBefore.velocity))
        /\ Near(TangentPart(DotAfter.velocity), TangentPart(DotBefore.velocity))
        /\ Near(RAdd(ThisAfter.velocity[1], DotAfter.velocity[1]),
                RAdd(ThisBefore.velocity[1], DotBefore.velocity[1]))
        /\ Near(RAdd(ThisAfter.velocity[2], DotAfter.velocity[2]),
                RAdd(ThisBefore.velocity[2], DotBefore.velocity[2]))
        /\ HeadOn => /\ ThisAfter.velocity = <<F(-1), F(0)>>
                     /\ DotAfter.velocity = <<F(1), F(0)>>

\* Two Random dots 8 apart with velocities (1,0) and (-1,0) have collided: each has
\* moved by 1 and they have exchanged their velocities.
C20_Witness ==
    /\ Resolved
    /\ ThisBefore.isRandom
    /\ DotBefore.isRandom
    /\ HeadOn
    /\ Displacement(ThisBefore, ThisAfter) = F(1)
    /\ Displacement(DotBefore, DotAfter) = F(1)
    /\ ThisAfter.velocity = <<F(-1), F(0)>>
    /\ DotAfter.velocity = <<F(1), F(0)>>

-----------------------------------------------------------------------------
(* Properties of the trial state machine and of the dots, checked under    *)
(* Spec and SpecUnanswered.                                                *)

\* The step that leads to the next state is a call of update.
UpdateStep == lastCall' = "update"

\* The distance a dot covers in the longest frame.
FrameMotion == FMul(speed, F(CHOOSE d \in Deltas : \A e \in Deltas : e <= d))

\* A dot's centre is inside the inner bounds of its side's patch.
CentreInside(dot, side) ==
    /\ RGe(dot.x, F(Bounds(side).minX))
    /\ RLe(dot.x, F(Bounds(side).maxX))
    /\ RGe(dot.y, F(Bounds(side).minY))
    /\ RLe(dot.y, F(Bounds(side).maxY))

\* A dot's circle reaches past no wall of its side's patch by more than d.
CircleWithin(dot, side, d) ==
    /\ RGe(RSub(dot.x, dot.radius), RSub(F(Bounds(side).minX), d))
    /\ RLe(RAdd(dot.x, dot.radius), RAdd(F(Bounds(side).maxX), d))
    /\ RGe(RSub(dot.y, dot.radius), RSub(F(Bounds(side).minY), d))
    /\ RLe(RAdd(dot.y, dot.radius), RAdd(F(Bounds(side).maxY), d))

\* C2: after any number of updateDots frames every Random dot's centre is inside
\* the inner bounds of its own patch and its circle reaches past no wall by more
\* than one frame's worth of motion (speed x delta).
C2_RandomDotsStayInside ==
    \A side \in Sides : \A i \in 1..Len(DotsOf(side)) :
        DotsOf(side)[i].isRandom =>
            /\ CentreInside(DotsOf(side)[i], side)
            /\ CircleWithin(DotsOf(side)[i], side, FrameMotion)

\* C3: once the state is FINISHED, a call of update leaves the state FINISHED and
\* leaves runTime, the feedback timer and every dot of both sides as they were.
C3_FinishedIsTerminal ==
    [][(currentState = "FINISHED" /\ UpdateStep) =>
          /\ currentState' = "FINISHED"
          /\ runTime' = runTime
          /\ feedbackTimer' = feedbackTimer
          /\ dotsLeft' = dotsLeft
          /\ dotsRight' = dotsRight]_vars

\* update has been called on a finished motion world that holds dots.
C3_Witness ==
    /\ world = MOTION
    /\ currentState = "FINISHED"
    /\ lastCall = "update"
    /\ ~patchInteractive
    /\ Len(dotsLeft) > 0
    /\ Len(dotsRight) > 0

\* The motion world is paused because the maximum run time elapsed.
PausedByTimeout == world = MOTION /\ currentState = "PAUSED" /\ runTime >= maxRunTime

\* C4 as the specification states it: once the motion world is paused because
\* the maximum run time elapsed, calls of update eventually bring it back to
\* RUNNING.
C4_PauseTimesOut == PausedByTimeout ~> (currentState = "RUNNING")

\* C4: a call of update on a paused motion world leaves it PAUSED and leaves
\* its dots as they were; it sets runTime to 0 if the maximum run time had elapsed
\* and leaves runTime as it was otherwise.
C4_UpdateNeverResumes ==
    [][(world = MOTION /\ currentState = "PAUSED" /\ UpdateStep) =>
          /\ currentState' = "PAUSED"
          /\ runTime' = (IF runTime >= maxRunTime THEN 0 ELSE runTime)
          /\ dotsLeft' = dotsLeft
          /\ dotsRight' = dotsRight]_vars

\* update has been called on a motion world that was paused by the run time: the
\* dots are hidden, the run time is back at 0 and the world is still paused.
C4_Witness ==
    /\ world = MOTION
    /\ currentState = "PAUSED"
    /\ lastCall = "update"
    /\ runTime = 0
    /\ ~containersVisible
    /\ Len(dotsLeft) > 0

\* The dots of one side are those of a fresh trial: each at a grid point of its
\* side, no two at the same one, with a full lifetime, a heading timer as drawn,
\* and a mode that is coherent only on the coherent side.
FreshSide(dots, side, coherentSide) ==
    LET points == IF side = "LEFT" THEN leftGridPoints.points ELSE rightGridPoints.points
    IN  /\ \A i \in 1..Len(dots) :
               /\ \E k \in 1..Len(points) : <<dots[i].x, dots[i].y>> = points[k]
               /\ dots[i].aliveTimer = dots[i].maxAliveTimer
               /\ dots[i].directionTimer \in DirectionTimerStarts
               /\ dots[i].isRandom <=> dots[i].direction = "RANDOM"
               /\ side # coherentSide => dots[i].isRandom
        /\ \A i, j \in 1..Len(dots) :
               i # j => <<dots[i].x, dots[i].y>> # <<dots[j].x, dots[j].y>>

\* The feedback time has elapsed once delta more is spent in the feedback state.
FeedbackElapsed(delta) ==
    IF world = MOTION
    THEN feedbackTimer + delta >= maxFeedbackTime
    ELSE 5 * (feedbackTimer + delta) >= 2 * maxFeedbackTime

\* The test is over: the step count or, in FormWorld, the reversal count is at
\* its maximum.
AtMaximum ==
    \/ stepCounter = MaxSteps
    \/ world = FORM /\ reversalCounter = ReversalPoints

\* C5: a call of update in a feedback state whose feedback time has elapsed moves
\* to FINISHED if the step count (in FormWorld also the reversal count) is at its
\* maximum, and otherwise sets runTime to 0, re-rolls the coherent side, gives every
\* dot a fresh position, mode and timers and moves to RUNNING; the feedback timer
\* is 0 after either; before the time has elapsed update stays in the feedback
\* state.
C5_FeedbackTransitions ==
    [][(currentState \in FeedbackStates /\ UpdateStep) =>
          \E delta \in Deltas :
              IF FeedbackElapsed(delta)
              THEN /\ feedbackTimer' = 0
                   /\ IF AtMaximum
                      THEN /\ currentState' = "FINISHED"
                           /\ runTime' = runTime
                           /\ dotsLeft' = dotsLeft
                           /\ dotsRight' = dotsRight
                      ELSE /\ currentState' = "RUNNING"
                           /\ runTime' = 0
                           /\ coherentPatchSide' \in Sides
                           /\ Len(dotsLeft') = Len(dotsLeft)
                           /\ Len(dotsRight') = Len(dotsRight)
                           /\ FreshSide(dotsLeft', "LEFT", coherentPatchSide')
                           /\ FreshSide(dotsRight', "RIGHT", coherentPatchSide')
              ELSE /\ currentState' = currentState
                   /\ feedbackTimer' = feedbackTimer + delta]_vars

\* The motion world is back in RUNNING with a fresh trial after the feedback on
\* its first response, whose dots had moved before.
C5_Witness ==
    /\ world = MOTION
    /\ currentState = "RUNNING"
    /\ lastCall = "update"
    /\ stepCounter = 1
    /\ runTime = 0
    /\ feedbackTimer = 0
    /\ quadTree.side = "RIGHT"

\* C6: a call of update on a running motion world adds delta to runTime and, when
\* runTime has then reached maxRunTime, sets the state to PAUSED and leaves the
\* dots and the quadtree as they were; after every update that leaves the motion
\* world RUNNING, runTime is below maxRunTime.
C6_PausesAtMaxRunTime ==
    [][(world = MOTION /\ UpdateStep) =>
          /\ currentState = "RUNNING" =>
                \E delta \in Deltas :
                    /\ runTime' = runTime + delta
                    /\ IF runTime + delta >= maxRunTime
                       THEN /\ currentState' = "PAUSED"
                            /\ dotsLeft' = dotsLeft
                            /\ dotsRight' = dotsRight
                            /\ quadTree' = quadTree
                       ELSE currentState' = "RUNNING"
          /\ currentState' = "RUNNING" => runTime' < maxRunTime]_vars

\* The motion world has just been paused by updateDots: runTime has reached
\* maxRunTime and paused() has not run yet.
C6_Witness ==
    /\ PausedByTimeout
    /\ lastCall = "update"
    /\ containersVisible

\* C18: once the motion trial world is constructed, each side holds exactly
\* numberOfDots dots in every reachable state: neither reset/createNewTrial nor
\* updateDots, paused or feedback adds or removes a dot.
C18_PopulationIsFixed ==
    (world = MOTION /\ failure = "none")
        => /\ Len(dotsLeft) = numberOfDots
           /\ Len(dotsRight) = numberOfDots

\* A new trial has been made by reset() after an answer: the world runs again
\* with a run time of zero and the dots of both sides are the configured number.
C18_Witness ==
    /\ world = MOTION
    /\ failure = "none"
    /\ stepCounter >= 1
    /\ currentState = "RUNNING"
    /\ runTime = 0
    /\ lastCall = "update"
    /\ Len(dotsLeft) = numberOfDots
    /\ Len(dotsRight) = numberOfDots

\* The motion world is just out of createDots (its constructor) or of the
\* createNewTrial of reset(): no frame has moved a dot and no answer has
\* changed the coherence since.
TrialJustCreated ==
    /\ world = MOTION
    /\ failure = "none"
    /\ \/ lastCall = "constructor"
       \/ lastCall = "reset"
       \/ /\ lastCall = "update"
          /\ stepCounter >= 1
          /\ currentState = "RUNNING"
          /\ runTime = 0

\* The indices of the Fixed-mode dots of a side.
FixedDots(side) == {i \in 1..Len(DotsOf(side)) : ~DotsOf(side)[i].isRandom}

\* The smallest k with (k / numberOfDots) * 100 >= coherencePercent, capped at
\* numberOfDots.
SmallestCoherentCount(coherencePercent) ==
    LET enough == {k \in 0..numberOfDots :
                      RGe(RMul(Rat(k, numberOfDots), I(100)), coherencePercent)}
    IN  IF enough = {}
        THEN numberOfDots
        ELSE CHOOSE k \in enough : \A other \in enough : k <= other

\* C19: after createDots or createNewTrial the Fixed dots are all in the side
\* named by coherentPatchSide, all with one direction, LEFT or RIGHT, and there
\* are as many as the smallest k with (k / numberOfDots) * 100 >= coherencePercent,
\* at most numberOfDots; every other dot of both sides is Random.
C19_CoherentDotsOfATrial ==
    TrialJustCreated =>
        /\ \A side \in Sides : side # coherentPatchSide => FixedDots(side) = {}
        /\ Cardinality(FixedDots(coherentPatchSide))
               = SmallestCoherentCount(coh[MOTION].coherencePercent)
        /\ \E direction \in {"LEFT", "RIGHT"} :
               \A i \in FixedDots(coherentPatchSide) :
                   DotsOf(coherentPatchSide)[i].direction = direction
        /\ \A side \in Sides :
               \A i \in 1..Len(DotsOf(side)) :
                   DotsOf(side)[i].isRandom <=> DotsOf(side)[i].direction = "RANDOM"

\* A trial made by reset() after updateCoherency has changed the coherence has
\* one Fixed dot and one Random dot in its coherent side.
C19_Witness ==
    /\ TrialJustCreated
    /\ lastCall = "reset"
    /\ Called(MOTION)
    /\ coh[MOTION].coherencePercent # coh[MOTION].prev
    /\ Cardinality(FixedDots(coherentPatchSide)) = 1
    /\ Cardinality(FixedDots(coherentPatchSide)) < Len(DotsOf(coherentPatchSide))

-----------------------------------------------------------------------------
(* Properties of the collision loop of updateDots, checked under SpecPass. *)

\* The collision loop of the left patch has taken its last dot.
PassDone == frame.pc = "update" /\ frame.side = "LEFT"

\* A dot is clear of the four walls of the left patch.
ClearOfWalls(dot) == checkWallCollision(dot, "LEFT") = dot

\* C21: a pair of dots of one mode that overlap when the collision loop of a
\* frame starts has exchanged its velocity components along the normal when the
\* loop is over: the two collide once, though each retrieves the other.
C21_PairCollidesOnce ==
    (/\ PassDone
     /\ ThisBefore.isRandom = DotBefore.isRandom
     /\ ClearOfWalls(ThisBefore)
     /\ ClearOfWalls(DotBefore)
     /\ RGt(Dist(ThisBefore, DotBefore), F(0))
     /\ RLe(Dist(ThisBefore, DotBefore), FMul(F(2), ThisBefore.radius)))
        => /\ Near(NormalPart(ThisAfter.velocity), NormalPart(DotBefore.velocity))
           /\ Near(NormalPart(DotAfter.velocity), NormalPart(ThisBefore.velocity))

\* A Fixed dot as the trial and Dot.update leave it: moving left or right at its
\* speed.
MovesSideways(dot) ==
    ~dot.isRandom /\ dot.velocity \in {<<speed, F(0)>>, <<RNeg(speed), F(0)>>}

\* The pair is one the trial can hold when the loop starts: a Fixed dot moves
\* sideways, and two Fixed dots move the same way.
PairOfATrial ==
    /\ \A i \in 1..2 : collision.before[i].isRandom \/ MovesSideways(collision.before[i])
    /\ (~ThisBefore.isRandom /\ ~DotBefore.isRandom)
           => ThisBefore.velocity = DotBefore.velocity

\* C26: a Fixed dot moves strictly left or right at its speed, and its y
\* coordinate is not changed by the collisions of a frame, whatever dots it
\* collides with.
C26_FixedDotsMoveSideways ==
    PairOfATrial =>
        \A i \in 1..2 :
            ~collision.before[i].isRandom =>
                /\ Near(dotsLeft[i].velocity[2], F(0))
                /\ Near(FMul(dotsLeft[i].velocity[1], dotsLeft[i].velocity[1]),
                        FMul(speed, speed))
                /\ dotsLeft[i].y = collision.before[i].y

-----------------------------------------------------------------------------
(* Properties of the wall step of updateDots, checked under SpecWall.      *)

\* The wall step has run on a dot; the dot before and after it.
WallStepDone == lastCall = "checkWallCollision" /\ frame.pc = "retrieve"

WallDotBefore == collision.before[collision.this]

WallDotAfter == DotsOf(frame.side)[collision.this]

\* The walls of the dot's patch that its circle reaches, as it was before the step.
ReachesMinX == RLe(RSub(WallDotBefore.x, WallDotBefore.radius), F(Bounds(frame.side).minX))

ReachesMaxX == RGe(RAdd(WallDotBefore.x, WallDotBefore.radius), F(Bounds(frame.side).maxX))

ReachesMinY == RLe(RSub(WallDotBefore.y, WallDotBefore.radius), F(Bounds(frame.side).minY))

ReachesMaxY == RGe(RAdd(WallDotBefore.y, WallDotBefore.radius), F(Bounds(frame.side).maxY))

\* The wall the else-if chain of checkWallCollision handles, "none" if no wall.
ViolatedWall ==
    IF ReachesMinX THEN "minX"
    ELSE IF ReachesMaxX THEN "maxX"
    ELSE IF ReachesMinY THEN "minY"
    ELSE IF ReachesMaxY THEN "maxY"
    ELSE "none"

\* The centre of the dot was inside the inner bounds of its patch before the step.
CentreWasInside ==
    /\ RGt(WallDotBefore.x, F(Bounds(frame.side).minX))
    /\ RLt(WallDotBefore.x, F(Bounds(frame.side).maxX))
    /\ RGt(WallDotBefore.y, F(Bounds(frame.side).minY))
    /\ RLt(WallDotBefore.y, F(Bounds(frame.side).maxY))

\* The distance of the centre of the dot from the handled wall, on its inner side.
InnerDistance(dot) ==
    IF ViolatedWall = "minX" THEN RSub(dot.x, F(Bounds(frame.side).minX))
    ELSE IF ViolatedWall = "maxX" THEN RSub(F(Bounds(frame.side).maxX), dot.x)
    ELSE IF ViolatedWall = "minY" THEN RSub(dot.y, F(Bounds(frame.side).minY))
    ELSE RSub(F(Bounds(frame.side).maxY), dot.y)

\* C22: the wall step moves a Random dot whose circle crosses a wall, and whose
\* centre is inside the patch, back by the full penetration: right after it the
\* centre is one radius from that wall, on the inner side.
C22_PushedToOneRadius ==
    (/\ WallStepDone
     /\ WallDotBefore.isRandom
     /\ CentreWasInside
     /\ ViolatedWall # "none")
        => Near(InnerDistance(WallDotAfter), WallDotBefore.radius)

\* C23: the wall step negates the velocity component of a Random dot that is
\* perpendicular to the handled wall, x for the left and right walls and y for
\* the top and bottom walls, and leaves the other component as it was, wherever
\* the dot is when the step handles a wall.
C23_PerpendicularComponentNegated ==
    (/\ WallStepDone
     /\ WallDotBefore.isRandom
     /\ ViolatedWall # "none")
        => IF ViolatedWall \in {"minX", "maxX"}
           THEN WallDotAfter.velocity
                    = <<RNeg(WallDotBefore.velocity[1]), WallDotBefore.velocity[2]>>
           ELSE WallDotAfter.velocity
                    = <<WallDotBefore.velocity[1], RNeg(WallDotBefore.velocity[2])>>

\* C24: the wall step leaves a Fixed dot as it was, whatever walls its circle
\* crosses.
C24_FixedDotsNotWallChecked ==
    (WallStepDone /\ ~WallDotBefore.isRandom) => WallDotAfter = WallDotBefore

\* The wall step has left a Fixed dot alone whose circle crosses the left wall of
\* its patch and whose centre is inside.
C24_Witness ==
    /\ WallStepDone
    /\ ~WallDotBefore.isRandom
    /\ CentreWasInside
    /\ ViolatedWall = "minX"
    /\ WallDotAfter = WallDotBefore

-----------------------------------------------------------------------------
(* Properties of the statements of updateDots, checked under SpecFrame.    *)

\* C14: in every updateDots frame and for each side, when a dot is inserted the
\* quadtree holds only the dots of that side inserted before it in this frame, and
\* at every retrieve it holds exactly the dots of the side being processed, each
\* once: none of the other side, none of an earlier frame.
C14_IndexBuiltBeforeRetrieve ==
    /\ frame.pc = "insert" =>
           /\ quadTree.objects = [k \in 1..(frame.i - 1) |-> k]
           /\ quadTree.side = IF frame.i = 1 THEN "NONE" ELSE frame.side
    /\ frame.pc = "collide" =>
           quadTree = quadTreeOf(DotsOf(frame.side), frame.side)

\* The second frame is at the retrieve for the last dot of the right side: the
\* quadtree has held the left side's dots and those of the first frame before.
C14_Witness ==
    /\ frame.pc = "collide"
    /\ frame.side = "RIGHT"
    /\ frame.i = Len(dotsRight)
    /\ runTime = 2 * frame.delta
    /\ quadTree = quadTreeOf(dotsRight, "RIGHT")

\* Dot i of a side is farther than 2 * radius + spacing from every other dot of
\* that side.
Apart(dots, i) ==
    \A j \in 1..Len(dots) :
        j # i => RGt(Dist(dots[i], dots[j]), F(2 * dotRadius + dotSpacing))

\* The side of the dot that the last statement of updateDots has respawned.
PlacedSide ==
    IF frame.pc = "update" THEN frame.side
    ELSE IF frame.pc = "clear" THEN "LEFT"
    ELSE "RIGHT"

\* The dots are where createDots has put them: no frame has run.
TrialStart ==
    /\ world = MOTION
    /\ failure = "none"
    /\ frame.pc = "idle"
    /\ runTime = 0
    /\ lastCall \in {"constructor", "setState"}

\* C15: a dot that has just been placed, at the start of a trial from the
\* shuffled grid points or by a respawn when its lifetime is over, is farther
\* than 2 * radius + spacing from every other dot of its side.
C15_PlacedApart ==
    /\ TrialStart => \A side \in Sides : \A i \in 1..Len(DotsOf(side)) :
                         Apart(DotsOf(side), i)
    /\ frame.placed # 0 => Apart(DotsOf(PlacedSide), frame.placed)

\* The step is a turn of the update-and-respawn loop of updateDots.
UpdateTurn == frame.pc = "update" /\ frame' # frame

\* The dot the turn is about, before the turn and after it.
TurnDot == DotsOf(frame.side)[frame.i]

TurnDotAfter == IF frame.side = "LEFT" THEN dotsLeft'[frame.i] ELSE dotsRight'[frame.i]

\* The turn finds the lifetime of its dot used up and respawns it.
TurnRespawns == TurnDot.aliveTimer - frame.delta <= 0

\* C25: Dot.update(delta) adds delta to the heading timer and takes delta from the
\* lifetime timer; a Fixed dot has its velocity negated and its heading timer set
\* to 0 exactly when the heading timer with delta added is at least the
\* horizontal period, and keeps its velocity otherwise; the position then
\* advances by delta times the velocity as it is after the change of heading.
C25_DotUpdate ==
    [][UpdateTurn =>
          LET t == TurnDot.directionTimer + frame.delta
          IN  /\ TurnDotAfter.directionTimer \in {t, 0}
              /\ TurnDotAfter.isRandom = TurnDot.isRandom
              /\ ~TurnDot.isRandom =>
                     IF t >= horMaxTime
                     THEN /\ TurnDotAfter.directionTimer = 0
                          /\ TurnDotAfter.velocity
                                 = <<RNeg(TurnDot.velocity[1]), RNeg(TurnDot.velocity[2])>>
                     ELSE /\ TurnDotAfter.directionTimer = t
                          /\ TurnDotAfter.velocity = TurnDot.velocity
              /\ TurnDot.isRandom =>
                     TurnDotAfter.directionTimer = IF t >= ranMaxTime THEN 0 ELSE t
              /\ ~TurnRespawns =>
                     /\ TurnDotAfter.aliveTimer = TurnDot.aliveTimer - frame.delta
                     /\ TurnDotAfter.x
                            = RAdd(TurnDot.x, FMul(F(frame.delta), TurnDotAfter.velocity[1]))
                     /\ TurnDotAfter.y
                            = RAdd(TurnDot.y, FMul(F(frame.delta), TurnDotAfter.velocity[2]))
      ]_vars

\* A frame has ended in which a Fixed dot created to move right has turned: its
\* heading timer is 0 and it moves left at its speed.
C25_Witness ==
    /\ frame.pc = "idle"
    /\ lastCall = "update"
    /\ runTime >= horMaxTime
    /\ \E side \in Sides : \E i \in 1..Len(DotsOf(side)) :
           /\ ~DotsOf(side)[i].isRandom
           /\ DotsOf(side)[i].direction = "RIGHT"
           /\ DotsOf(side)[i].directionTimer = 0
           /\ DotsOf(side)[i].velocity = <<RNeg(speed), F(0)>>

\* The circle of a dot lies within the inner bounds of the patch of a side.
CircleInside(dot, side) ==
    /\ RGe(dot.x, F(Bounds(side).minX + dotRadius))
    /\ RLe(dot.x, F(Bounds(side).maxX - dotRadius))
    /\ RGe(dot.y, F(Bounds(side).minY + dotRadius))
    /\ RLe(dot.y, F(Bounds(side).maxY - dotRadius))

\* C27: when a frame of updateDots that updates the dots is over, the lifetime
\* timer of every dot is above 0: a dot whose timer has come to 0 or below in the
\* frame has it back at its own maximum and is at a point of its own patch with
\* its circle within the inner bounds; a dot whose timer is still above 0 is
\* where its update has moved it.
C27_RespawnAtEndOfLifetime ==
    [][UpdateTurn =>
          /\ TurnDotAfter.aliveTimer > 0
          /\ TurnDotAfter.maxAliveTimer = TurnDot.maxAliveTimer
          /\ IF TurnRespawns
             THEN /\ TurnDotAfter.aliveTimer = TurnDot.maxAliveTimer
                  /\ CircleInside(TurnDotAfter, frame.side)
             ELSE /\ TurnDotAfter.aliveTimer = TurnDot.aliveTimer - frame.delta
                  /\ TurnDotAfter.x
                         = RAdd(TurnDot.x, FMul(F(frame.delta), TurnDotAfter.velocity[1]))
                  /\ TurnDotAfter.y
                         = RAdd(TurnDot.y, FMul(F(frame.delta), TurnDotAfter.velocity[2]))
          /\ frame'.pc = "idle" =>
                 \A side \in Sides : \A i \in 1..numberOfDots :
                     (IF side = "LEFT" THEN dotsLeft' ELSE dotsRight')[i].aliveTimer > 0
      ]_vars

\* The update-and-respawn loop has just respawned a dot in the second frame of a
\* trial: its lifetime timer is at its maximum and its circle is within the inner
\* bounds of its patch.
C27_Witness ==
    /\ frame.placed # 0
    /\ runTime = 2 * frame.delta
    /\ DotsOf(PlacedSide)[frame.placed].aliveTimer
           = DotsOf(PlacedSide)[frame.placed].maxAliveTimer
    /\ CircleInside(DotsOf(PlacedSide)[frame.placed], PlacedSide)

-----------------------------------------------------------------------------
(* Properties of getFreeSpotInPatch, checked under SpecFreeSpot.           *)

\* C16: getFreeSpotInPatch always terminates: a call that is in its loop
\* eventually leaves it, with a free spot or with an error.
C16_FreeSpotTerminates ==
    (frame.pc = "getFreeSpotInPatch") ~> (frame.pc # "getFreeSpotInPatch")

-----------------------------------------------------------------------------
(* Properties of createGridPoints, checked under SpecGrid.                 *)

\* C17: createGridPoints throws, and no dot is created, when the grid has fewer
\* points left after the in-bounds filter than numberOfDots; whenever it returns,
\* the list has at least numberOfDots points, and createDots never reads a grid
\* point that is not there.
C17_GridHasAPointForEveryDot ==
    /\ (grid.called /\ grid.error) => dotsLeft = <<>>
    /\ (grid.called /\ ~grid.error) => Len(grid.points) >= grid.numberOfDots
    /\ failure # "TypeError"

-----------------------------------------------------------------------------
(* Properties of the lifetimes of the dots, checked under SpecStagger.     *)

\* C28: after createDots or createNewTrial, with a kill percentage above 0 and
\* below 100 and more than one dot per side, the dots of a side do not all have
\* the same maximum lifetime.
C28_LifetimesStaggered ==
    (lastCall \in {"createDots", "createNewTrial"} /\ grid.numberOfDots > 1)
        => \E i, j \in 1..grid.numberOfDots : grid.lifetimes[i] # grid.lifetimes[j]

-----------------------------------------------------------------------------
(* Properties of the numbers of a dot, checked under SpecPass.             *)

\* C29: no dot ever has NaN as a coordinate or as a velocity component: the
\* collision pass never leaves a dot of the pair without a position or a
\* velocity, whatever the centres of the two dots are.
C29_NoDotIsNaN ==
    \A i \in 1..Len(dotsLeft) :
        /\ ~IsNaN(dotsLeft[i].x)
        /\ ~IsNaN(dotsLeft[i].y)
        /\ ~IsNaN(dotsLeft[i].velocity[1])
        /\ ~IsNaN(dotsLeft[i].velocity[2])

-----------------------------------------------------------------------------
(* Properties of TextButton, checked under SpecButton.                     *)

\* The distance of the text of the button below its rest position, the middle of
\* the button.
TextOffset == button.textY - button.buttonHeight \div 2

\* C30: after any sequence of pointer events the text of a button is at its rest
\* position or 3 pixels below it, and it is at its rest position whenever
\* isMouseDown is false.
C30_TextOffsetFollowsMouseDown ==
    /\ TextOffset \in {0, 3}
    /\ ~button.isMouseDown => TextOffset = 0

=============================================================================
